---- MODULE Spec2Model ----
(***************************************************************************)
(* Model of llm_data_kit's core: the lazy document layer                   *)
(* (core/optimized_document_parser.py) and the answer extraction           *)
(* orchestrator (core/answer_extractor.py,                                 *)
(* core/optimized_answer_extractor.py).                                    *)
(*                                                                         *)
(* Text is a sequence of one-character strings.  Python's 0-based offsets  *)
(* are kept as they are in the code; the helpers below translate them to   *)
(* TLA+'s 1-based sequences.                                               *)
(***************************************************************************)
EXTENDS Integers, Sequences, FiniteSets, TLC

(***************************************************************************)
(* Bounds of the model.                                                    *)
(***************************************************************************)
\* longest text file (characters) the parser specification opens
MaxFileLen == 3
\* most pages of a PDF the parser specification opens
MaxPages == 2
\* candidates in a list handed to the engine's post-processing
MaxCandidates == 3
\* start offsets of those candidates: 0..MaxStart-1
MaxStart == 3
\* how many times in a row a post-processing step is applied
MaxPasses == 2

(***************************************************************************)
(* Python helpers.                                                         *)
(***************************************************************************)
Min(a, b) == IF a <= b THEN a ELSE b

Max(a, b) == IF a >= b THEN a ELSE b

\* s[a:b] for 0 <= a, 0 <= b (b may exceed len(s))
PySlice(s, a, b) == SubSeq(s, a + 1, Min(b, Len(s)))

\* s[-n:]  (n = 0 gives s[0:], the whole string)
PyTail(s, n) == IF n = 0 \/ n >= Len(s) THEN s ELSE SubSeq(s, Len(s) - n + 1, Len(s))

\* sub occurs in s at 0-based offset i
OccursAt(s, sub, i) ==
    /\ i >= 0
    /\ i + Len(sub) <= Len(s)
    /\ \A k \in 1..Len(sub) : s[i + k] = sub[k]

\* s.find(sub, start): the least offset >= start where sub occurs, else -1
PyFind(s, sub, start) ==
    LET hits == {i \in start..(Len(s) - Len(sub)) : OccursAt(s, sub, i)}
    IN IF hits = {} THEN -1 ELSE CHOOSE i \in hits : \A j \in hits : i <= j

\* all sequences over S of length 0..n
SeqsUpTo(S, n) == UNION {[1..k -> S] : k \in 0..n}

RECURSIVE Concat(_)
\* ''.join(parts)
Concat(parts) == IF parts = <<>> THEN <<>> ELSE Head(parts) \o Concat(Tail(parts))

RECURSIVE JoinNewline(_)
\* '\n'.join(parts)
JoinNewline(parts) ==
    IF parts = <<>> THEN <<>>
    ELSE IF Len(parts) = 1 THEN Head(parts)
    ELSE Head(parts) \o <<"\n">> \o JoinNewline(Tail(parts))

(***************************************************************************)
(* State.                                                                  *)
(***************************************************************************)
VARIABLES
    source,         \* the file on disk, [ext, text, pages], and the chunk size
                    \* max_chars of the parser that opens it
    document_data,  \* the dict the parser returned (NoDocument before parsing)
    last,           \* the last parser call: what it was given and returned
    engine,         \* the engine's post-processing steps called on their own:
                    \* the list given and the list after each pass
    extractor,      \* the extractor object: its class, doc_parser, flags, settings
    runs            \* the extraction runs started, one record per worker

parserVars == <<source, document_data, last>>

vars == <<source, document_data, last, engine, extractor, runs>>

(***************************************************************************)
(* core/optimized_document_parser.py                                       *)
(***************************************************************************)
\* OptimizedDocumentParser(chunk_size_pages=...), scaled from the default 10
chunk_size_pages == 1
\* OptimizedDocumentParser(max_chars_per_chunk=...), scaled from the default 50000
max_chars_per_chunk == 2
\* estimated_chars = (chunk_end - chunk_start) * 2000
EstimatedCharsPerPage == 2000
\* the 50 characters of context search_in_document keeps around a hit
SearchContext == 50

FileAlphabet == {"a", "b"}

\* f"Error loading text chunk: {e}", f"Error loading PDF chunk: {e}" and
\* f"Error loading chunk {chunk_id}: {e}", abbreviated; "E" and "r" are no file
\* characters.  Like the real messages against the default min_answer_length,
\* they are as long as the smallest minimum length the extractor is set to.
TextErrorMarker == <<"E", "r", "t">>

PdfErrorMarker == <<"E", "r", "p">>

ChunkErrorMarker == <<"E", "r", "c">>

ErrorMarkers == {TextErrorMarker, PdfErrorMarker, ChunkErrorMarker}

NoIndex == [total_pages |-> 0, total_characters |-> 0, chunks |-> <<>>,
            page_char_positions |-> <<>>]

NoDocument == [parsed |-> FALSE, lazy_content |-> FALSE, content |-> <<>>,
               ext |-> "none", index |-> NoIndex]

DocumentChunk(id, ps, pe, cs, ce) ==
    [chunk_id |-> id, page_start |-> ps, page_end |-> pe, content |-> <<>>,
     char_start |-> cs, char_end |-> ce, is_loaded |-> FALSE]

\* the whole text of the file as an eager parse returns it
FullText(src) ==
    IF src.ext = "pdf" THEN JoinNewline(src.pages) ELSE src.text

\* DocumentParser.parse_document, reached through _parse_regular
ParseRegular(src) ==
    [parsed |-> TRUE, lazy_content |-> FALSE, content |-> FullText(src),
     ext |-> src.ext, index |-> NoIndex]

RECURSIVE TextChunksNoMin(_, _, _, _)
\* _parse_text_lazy's loop without the min() that clips the last chunk
TextChunksNoMin(chunks, current_pos, file_size, max_chars) ==
    IF current_pos < file_size
    THEN LET chunk_start == current_pos
             chunk_end == current_pos + max_chars
         IN TextChunksNoMin(Append(chunks,
                                   DocumentChunk(Len(chunks), 0, 0, chunk_start, chunk_end)),
                            chunk_end, file_size, max_chars)
    ELSE chunks

RECURSIVE TextChunks(_, _, _, _)
\* the while loop of _parse_text_lazy; max_chars is self.max_chars_per_chunk
TextChunks(chunks, current_pos, file_size, max_chars) ==
    IF current_pos < file_size
    THEN LET chunk_start == current_pos
             chunk_end == Min(current_pos + max_chars, file_size)
         IN TextChunks(Append(chunks,
                              DocumentChunk(Len(chunks), 0, 0, chunk_start, chunk_end)),
                       chunk_end, file_size, max_chars)
    ELSE chunks

\* _parse_text_lazy; src.max_chars is the max_chars_per_chunk the parser that
\* opens the file was constructed with
ParseTextLazy(src) ==
    LET file_size == Len(src.text)
        chunks == TextChunks(<<>>, 0, file_size, src.max_chars)
    IN [parsed |-> TRUE, lazy_content |-> TRUE, content |-> <<>>, ext |-> src.ext,
        index |-> [total_pages |-> 1, total_characters |-> file_size,
                   chunks |-> chunks, page_char_positions |-> <<0>>]]

RECURSIVE PdfChunks(_, _, _, _)
\* the for loop of _parse_pdf_lazy; returns the chunks and current_char_pos
PdfChunks(chunks, current_char_pos, chunk_start, total_pages) ==
    IF chunk_start < total_pages
    THEN LET chunk_end == Min(chunk_start + chunk_size_pages, total_pages)
             estimated_chars == (chunk_end - chunk_start) * EstimatedCharsPerPage
         IN PdfChunks(Append(chunks,
                             DocumentChunk(Len(chunks), chunk_start, chunk_end,
                                           current_char_pos,
                                           current_char_pos + estimated_chars)),
                      current_char_pos + estimated_chars,
                      chunk_start + chunk_size_pages, total_pages)
    ELSE [chunks |-> chunks, current_char_pos |-> current_char_pos]

ParsePdfLazy(src) ==
    LET total_pages == Len(src.pages)
        built == PdfChunks(<<>>, 0, 0, total_pages)
    IN [parsed |-> TRUE, lazy_content |-> TRUE, content |-> <<>>, ext |-> src.ext,
        index |-> [total_pages |-> total_pages,
                   total_characters |-> built.current_char_pos,
                   chunks |-> built.chunks, page_char_positions |-> <<0>>]]

\* what the source holds for a chunk: pages page_start..page_end-1 joined by
\* newlines, or the characters char_start..char_end-1 of a text file
RealChunkText(src, chunk) ==
    IF src.ext = "pdf"
    THEN JoinNewline(SubSeq(src.pages, chunk.page_start + 1, chunk.page_end))
    ELSE PySlice(src.text, chunk.char_start, chunk.char_end)

\* How one read of the source ends:
\*   "ok"          a reader returned the text (for a PDF: pdfplumber, or PyPDF2
\*                 after pdfplumber raised)
\*   "inner_error" the helper caught the failure and returned its marker
\*   "outer_error" an exception escaped the helper into load_chunk's handler
ReadOutcomes == {"ok", "inner_error", "outer_error"}

\* _load_pdf_chunk
LoadPdfChunk(src, chunk, outcome) ==
    IF outcome = "ok" THEN RealChunkText(src, chunk) ELSE PdfErrorMarker

\* _load_text_chunk
LoadTextChunk(src, chunk, outcome) ==
    IF outcome = "ok" THEN RealChunkText(src, chunk) ELSE TextErrorMarker

\* load_chunk with the early return for a loaded chunk removed
LoadChunkNoCache(src, dd, chunk_id, outcome) ==
    IF ~dd.lazy_content
    THEN [dd |-> dd, ret |-> dd.content, raised |-> FALSE, read |-> FALSE]
    ELSE IF chunk_id >= Len(dd.index.chunks)
    THEN [dd |-> dd, ret |-> <<>>, raised |-> FALSE, read |-> FALSE]
    ELSE LET chunk == dd.index.chunks[chunk_id + 1]
             text == IF src.ext = "pdf" THEN LoadPdfChunk(src, chunk, outcome)
                     ELSE LoadTextChunk(src, chunk, outcome)
         IN IF outcome = "outer_error"
            THEN [dd |-> dd, ret |-> ChunkErrorMarker, raised |-> FALSE, read |-> TRUE]
            ELSE [dd |-> [dd EXCEPT !.index.chunks[chunk_id + 1].content = text,
                                    !.index.chunks[chunk_id + 1].is_loaded = TRUE],
                  ret |-> text, raised |-> FALSE, read |-> TRUE]

\* load_chunk letting the exception of a failed read escape
LoadChunkRaising(src, dd, chunk_id, outcome) ==
    IF ~dd.lazy_content
    THEN [dd |-> dd, ret |-> dd.content, raised |-> FALSE, read |-> FALSE]
    ELSE IF chunk_id >= Len(dd.index.chunks)
    THEN [dd |-> dd, ret |-> <<>>, raised |-> FALSE, read |-> FALSE]
    ELSE LET chunk == dd.index.chunks[chunk_id + 1]
             text == IF src.ext = "pdf" THEN LoadPdfChunk(src, chunk, outcome)
                     ELSE LoadTextChunk(src, chunk, outcome)
         IN IF chunk.is_loaded
            THEN [dd |-> dd, ret |-> chunk.content, raised |-> FALSE, read |-> FALSE]
            ELSE IF outcome \in {"outer_error", "inner_error"}
            THEN [dd |-> dd, ret |-> <<>>, raised |-> TRUE, read |-> TRUE]
            ELSE [dd |-> [dd EXCEPT !.index.chunks[chunk_id + 1].content = text,
                                    !.index.chunks[chunk_id + 1].is_loaded = TRUE],
                  ret |-> text, raised |-> FALSE, read |-> TRUE]

\* load_chunk setting the chunk's char_end from the length of the text read
LoadChunkFixingCharEnd(src, dd, chunk_id, outcome) ==
    IF ~dd.lazy_content
    THEN [dd |-> dd, ret |-> dd.content, raised |-> FALSE, read |-> FALSE]
    ELSE IF chunk_id >= Len(dd.index.chunks)
    THEN [dd |-> dd, ret |-> <<>>, raised |-> FALSE, read |-> FALSE]
    ELSE LET chunk == dd.index.chunks[chunk_id + 1]
             text == IF src.ext = "pdf" THEN LoadPdfChunk(src, chunk, outcome)
                     ELSE LoadTextChunk(src, chunk, outcome)
         IN IF chunk.is_loaded
            THEN [dd |-> dd, ret |-> chunk.content, raised |-> FALSE, read |-> FALSE]
            ELSE IF outcome = "outer_error"
            THEN [dd |-> dd, ret |-> ChunkErrorMarker, raised |-> FALSE, read |-> TRUE]
            ELSE [dd |-> [dd EXCEPT !.index.chunks[chunk_id + 1].content = text,
                                    !.index.chunks[chunk_id + 1].is_loaded = TRUE,
                                    !.index.chunks[chunk_id + 1].char_end =
                                        chunk.char_start + Len(text)],
                  ret |-> text, raised |-> FALSE, read |-> TRUE]

\* load_chunk(document_data, chunk_id); outcome is how the read of the source
\* ends if this call reads it.  Returns the document with the chunk's cache
\* updated, the returned string, whether the call raised and whether it read.
LoadChunk(src, dd, chunk_id, outcome) ==
    IF ~dd.lazy_content
    THEN [dd |-> dd, ret |-> dd.content, raised |-> FALSE, read |-> FALSE]
    ELSE IF chunk_id >= Len(dd.index.chunks)
    THEN [dd |-> dd, ret |-> <<>>, raised |-> FALSE, read |-> FALSE]
    ELSE LET chunk == dd.index.chunks[chunk_id + 1]
             text == IF src.ext = "pdf" THEN LoadPdfChunk(src, chunk, outcome)
                     ELSE LoadTextChunk(src, chunk, outcome)
         IN IF chunk.is_loaded
            THEN [dd |-> dd, ret |-> chunk.content, raised |-> FALSE, read |-> FALSE]
            ELSE IF outcome = "outer_error"
            THEN [dd |-> dd, ret |-> ChunkErrorMarker, raised |-> FALSE, read |-> TRUE]
            ELSE [dd |-> [dd EXCEPT !.index.chunks[chunk_id + 1].content = text,
                                    !.index.chunks[chunk_id + 1].is_loaded = TRUE],
                  ret |-> text, raised |-> FALSE, read |-> TRUE]

RECURSIVE GetTextFrom(_, _, _, _, _, _, _)
\* the for loop of get_text_at_position from chunk index i on; outs gives, per
\* chunk id, how a read of the source ends.  acc carries document_data, the
\* parts collected, the chunk ids read and whether a load raised.
GetTextFrom(src, acc, i, start_pos, end_pos, outs, n) ==
    IF i >= n \/ acc.raised THEN acc
    ELSE LET chunk == acc.dd.index.chunks[i + 1]
         IN IF chunk.char_end <= start_pos \/ chunk.char_start >= end_pos
            THEN GetTextFrom(src, acc, i + 1, start_pos, end_pos, outs, n)
            ELSE LET r == LoadChunk(src, acc.dd, chunk.chunk_id, outs[chunk.chunk_id])
                     chunk_content == r.ret
                     chunk_start == Max(0, start_pos - chunk.char_start)
                     chunk_end == Min(Len(chunk_content), end_pos - chunk.char_start)
                     part == IF chunk_start < chunk_end
                             THEN PySlice(chunk_content, chunk_start, chunk_end)
                             ELSE <<>>
                 IN GetTextFrom(src,
                        [dd |-> r.dd,
                         ret |-> IF r.raised THEN acc.ret ELSE acc.ret \o part,
                         raised |-> r.raised,
                         readIds |-> IF r.read THEN Append(acc.readIds, chunk.chunk_id)
                                     ELSE acc.readIds,
                         visited |-> Append(acc.visited, chunk.chunk_id)],
                        i + 1, start_pos, end_pos, outs, n)

\* get_text_at_position(document_data, start_pos, end_pos)
GetTextAtPosition(src, dd, start_pos, end_pos, outs) ==
    IF ~dd.lazy_content
    THEN [dd |-> dd, ret |-> PySlice(dd.content, start_pos, end_pos), raised |-> FALSE,
          readIds |-> <<>>, visited |-> <<>>]
    ELSE GetTextFrom(src,
             [dd |-> dd, ret |-> <<>>, raised |-> FALSE, readIds |-> <<>>,
              visited |-> <<>>],
             0, start_pos, end_pos, outs, Len(dd.index.chunks))

RECURSIVE FindAll(_, _, _)
\* the while loop of search_in_document: every offset at which term occurs
FindAll(content, term, start) ==
    LET pos == PyFind(content, term, start)
    IN IF pos = -1 THEN <<>> ELSE <<pos>> \o FindAll(content, term, pos + 1)

\* the result dicts of one chunk (chunk_id -1 stands for None)
SearchHits(content, term, char_start, chunk_id) ==
    LET hits == FindAll(content, term, 0)
    IN [k \in 1..Len(hits) |->
          [position |-> char_start + hits[k],
           context |-> PySlice(content, Max(0, hits[k] - SearchContext),
                               Min(Len(content), hits[k] + Len(term) + SearchContext)),
           chunk_id |-> chunk_id]]

RECURSIVE SearchFrom(_, _, _, _, _, _)
\* the for loop of search_in_document over the chunks from index i on
SearchFrom(src, acc, i, term, outs, n) ==
    IF i >= n \/ acc.raised THEN acc
    ELSE LET chunk == acc.dd.index.chunks[i + 1]
             r == LoadChunk(src, acc.dd, chunk.chunk_id, outs[chunk.chunk_id])
         IN SearchFrom(src,
                [dd |-> r.dd,
                 ret |-> IF r.raised THEN acc.ret
                         ELSE acc.ret \o SearchHits(r.ret, term, chunk.char_start,
                                                    chunk.chunk_id),
                 raised |-> r.raised,
                 readIds |-> IF r.read THEN Append(acc.readIds, chunk.chunk_id)
                             ELSE acc.readIds,
                 visited |-> Append(acc.visited, chunk.chunk_id)],
                i + 1, term, outs, n)

\* search_in_document(document_data, search_term)
SearchInDocument(src, dd, term, outs) ==
    IF ~dd.lazy_content
    THEN [dd |-> dd, ret |-> SearchHits(dd.content, term, 0, -1), raised |-> FALSE,
          readIds |-> <<>>, visited |-> <<>>]
    ELSE SearchFrom(src,
             [dd |-> dd, ret |-> <<>>, raised |-> FALSE, readIds |-> <<>>,
              visited |-> <<>>],
             0, term, outs, Len(dd.index.chunks))

(***************************************************************************)
(* core/answer_extractor.py: the candidate extraction engine.              *)
(* A confidence is a double.  The model holds the doubles the engine       *)
(* reaches as integers that keep their order: the double nearest to k/10   *)
(* is 10k, the double reached just below it 10k - 1, the one just above    *)
(* it 10k + 1 (0.5 is 50, 0.8999999999999999 is 89, 0.6000000000000001 is  *)
(* 61).  The 0.7 overlap threshold and the 0.7 factor of the filter are    *)
(* 7 tenths.                                                               *)
(***************************************************************************)
\* \s
Whitespace == {" ", "\n"}

\* [.!?]
SentenceEnd == {".", "!", "?"}

\* the characters of the model that are not \w and not \s
Punctuation == {".", "!", "?", ",", ":", "%"}

\* [A-Z]
UpperCase == {"A", "B"}

\* \w
IsWordChar(c) == c \notin Whitespace /\ c \notin Punctuation

\* re.IGNORECASE: the lower-case form of a character
Fold(c) == IF c = "A" THEN "a" ELSE IF c = "B" THEN "b" ELSE c

\* the least j >= i such that s[j] is outside S or j = len(s)
RECURSIVE RunEnd(_, _, _)
RunEnd(s, i, S) ==
    IF i < Len(s) /\ s[i + 1] \in S THEN RunEnd(s, i + 1, S) ELSE i

\* str.strip()
RECURSIVE LStrip(_)
LStrip(s) == IF s # <<>> /\ Head(s) \in Whitespace THEN LStrip(Tail(s)) ELSE s

RECURSIVE RStrip(_)
RStrip(s) ==
    IF s # <<>> /\ s[Len(s)] \in Whitespace THEN RStrip(SubSeq(s, 1, Len(s) - 1)) ELSE s

Strip(s) == RStrip(LStrip(s))

\* str.count(c)
CountChar(s, c) == Cardinality({k \in 1..Len(s) : s[k] = c})

\* re.search(r'\b(w1|w2|...)\b', s, re.IGNORECASE) for words of word characters
\* and inner spaces
ContainsWord(s, words) ==
    \E w \in words : \E i \in 0..(Len(s) - Len(w)) :
        /\ \A k \in 1..Len(w) : Fold(s[i + k]) = w[k]
        /\ (i = 0 \/ ~IsWordChar(s[i]))
        /\ (i + Len(w) = Len(s) \/ ~IsWordChar(s[i + Len(w) + 1]))

\* (is|are|was|were|will|can|could|should|must)
ModalWords ==
    {<<"i", "s">>, <<"a", "r", "e">>, <<"w", "a", "s">>, <<"w", "e", "r", "e">>,
     <<"w", "i", "l", "l">>, <<"c", "a", "n">>, <<"c", "o", "u", "l", "d">>,
     <<"s", "h", "o", "u", "l", "d">>, <<"m", "u", "s", "t">>}

\* (because|since|due to|as a result)
CausalWords ==
    {<<"b", "e", "c", "a", "u", "s", "e">>, <<"s", "i", "n", "c", "e">>,
     <<"d", "u", "e", " ", "t", "o">>,
     <<"a", "s", " ", "a", " ", "r", "e", "s", "u", "l", "t">>}

\* (therefore|thus|consequently|however)
DiscourseWords ==
    {<<"t", "h", "e", "r", "e", "f", "o", "r", "e">>, <<"t", "h", "u", "s">>,
     <<"c", "o", "n", "s", "e", "q", "u", "e", "n", "t", "l", "y">>,
     <<"h", "o", "w", "e", "v", "e", "r">>}

AnswerCandidate(text, start_pos, end_pos, confidence, extraction_method, context) ==
    [text |-> text, start_pos |-> start_pos, end_pos |-> end_pos,
     confidence |-> confidence, extraction_method |-> extraction_method,
     context |-> context]

\* the settings of AnswerExtractor.__init__
DefaultSettings ==
    [min_answer_length |-> 20, max_answer_length |-> 500, min_confidence |-> 30,
     max_candidates_per_chunk |-> 100, overlap_size |-> 200]

\* score += d tenths (score -= for d < 0) in double arithmetic, for the sums
\* the six score functions make: eight of them are not the double nearest to
\* the decimal sum (0.2 + 0.1 is 0.30000000000000004, 0.7 + 0.2 is
\* 0.8999999999999999, 0.9999999999999999 - 0.3 is 0.7, ...)
FloatAdd(score, d) ==
    CASE score = 20 /\ d = 1 -> 31
      [] score = 39 /\ d = 1 -> 50
      [] score = 40 /\ d = 2 -> 61
      [] score = 49 /\ d = 1 -> 60
      [] score = 70 /\ d = -3 -> 39
      [] score = 70 /\ d = 1 -> 79
      [] score = 70 /\ d = 2 -> 89
      [] score = 99 /\ d = -3 -> 70
      [] OTHER -> score + 10 * d

\* score += d when the condition holds
AddIf(score, condition, d) == IF condition THEN FloatAdd(score, d) ELSE score

\* return score, without the cap
ScoreUncapped(score) == score

\* return min(score, 1.0)
ScoreCapped(score) == Min(score, 100)

\* _score_sentence
ScoreSentence(sentence, st) ==
    IF ~(50 <= Len(sentence) /\ Len(sentence) <= 200)
       /\ Len(sentence) < st.min_answer_length
    THEN 0
    ELSE LET base == 50
             length == AddIf(base, 50 <= Len(sentence) /\ Len(sentence) <= 200, 2)
             modal == AddIf(length, ContainsWord(sentence, ModalWords), 1)
             causal == AddIf(modal, ContainsWord(sentence, CausalWords), 1)
             discourse == AddIf(causal, ContainsWord(sentence, DiscourseWords), 1)
             question == AddIf(discourse,
                               /\ Strip(sentence) # <<>>
                               /\ Strip(sentence)[Len(Strip(sentence))] = "?", -3)
             commas == AddIf(question, CountChar(sentence, ",") > 3, 1)
         IN ScoreCapped(commas)

\* len(re.split(r'[.!?]+', paragraph)): one more than the runs of [.!?]
SentenceCount(paragraph) ==
    1 + Cardinality({k \in 1..Len(paragraph) :
                        /\ paragraph[k] \in SentenceEnd
                        /\ (k = 1 \/ paragraph[k - 1] \notin SentenceEnd)})

\* _score_paragraph
ScoreParagraph(paragraph, st) ==
    IF ~(100 <= Len(paragraph) /\ Len(paragraph) <= 400)
       /\ Len(paragraph) > st.max_answer_length
    THEN 0
    ELSE LET base == 40
             length == AddIf(base, 100 <= Len(paragraph) /\ Len(paragraph) <= 400, 3)
             count == AddIf(length,
                            /\ 2 <= SentenceCount(paragraph)
                            /\ SentenceCount(paragraph) <= 5, 2)
             single == AddIf(count, CountChar(paragraph, "\n") = 0, 1)
         IN ScoreCapped(single)

\* str.endswith(suffix)
EndsWith(s, suffix) ==
    /\ Len(suffix) <= Len(s)
    /\ \A k \in 1..Len(suffix) : s[Len(s) - Len(suffix) + k] = suffix[k]

\* _score_list_item
ScoreListItem(item) ==
    LET base == 60
        length == AddIf(base, 30 <= Len(item) /\ Len(item) <= 150, 2)
        incomplete == AddIf(length,
                            EndsWith(item, <<".", ".", ".">>) \/ EndsWith(item, <<":">>), -3)
    IN ScoreCapped(incomplete)

\* _score_definition
ScoreDefinition(definition) ==
    LET base == 80
        length == AddIf(base, 40 <= Len(definition) /\ Len(definition) <= 200, 1)
    IN ScoreCapped(length)

\* \d
Digits == {"0", "1", "2", "3", "4", "5", "6", "7", "8", "9"}

\* (percent|million|billion|thousand)
QuantityWords ==
    {<<"p", "e", "r", "c", "e", "n", "t">>, <<"m", "i", "l", "l", "i", "o", "n">>,
     <<"b", "i", "l", "l", "i", "o", "n">>, <<"t", "h", "o", "u", "s", "a", "n", "d">>}

\* re.search(r'\d+%|\d+\s+(percent|million|billion|thousand)', s): a digit at
\* offset i - 1 followed by '%', or by whitespace up to offset j and a word
HasStatistic(s) ==
    \E i \in 1..Len(s) :
        /\ s[i] \in Digits
        /\ \/ i < Len(s) /\ s[i + 1] = "%"
           \/ \E j \in (i + 1)..Len(s) :
                  /\ \A k \in (i + 1)..j : s[k] \in Whitespace
                  /\ \E w \in QuantityWords :
                         /\ j + Len(w) <= Len(s)
                         /\ \A k \in 1..Len(w) : s[j + k] = w[k]

\* _score_fact
ScoreFact(fact) ==
    LET base == 70
        length == AddIf(base, 30 <= Len(fact) /\ Len(fact) <= 150, 1)
        statistic == AddIf(length, HasStatistic(fact), 1)
    IN ScoreCapped(statistic)

\* _score_procedure
ScoreProcedure(procedure) ==
    LET base == 60
        length == AddIf(base, 40 <= Len(procedure) /\ Len(procedure) <= 200, 2)
    IN ScoreCapped(length)

RECURSIVE SplitSentences(_, _, _)
\* re.split(r'[.!?]+\s+', text): the pieces between the matches, scanning from
\* offset i with the current piece starting at offset from
SplitSentences(text, i, from) ==
    IF i >= Len(text) THEN <<PySlice(text, from, Len(text))>>
    ELSE IF text[i + 1] \in SentenceEnd
    THEN LET j == RunEnd(text, i, SentenceEnd)
             k == RunEnd(text, j, Whitespace)
         IN IF k > j
            THEN <<PySlice(text, from, i)>> \o SplitSentences(text, k, k)
            ELSE SplitSentences(text, j, from)
    ELSE SplitSentences(text, i + 1, from)

\* the offset after the last newline of the whitespace run starting at i, or i
\* when that run holds no newline
RECURSIVE LastNewlineEnd(_, _, _)
LastNewlineEnd(text, i, best) ==
    IF i < Len(text) /\ text[i + 1] \in Whitespace
    THEN LastNewlineEnd(text, i + 1, IF text[i + 1] = "\n" THEN i + 1 ELSE best)
    ELSE best

RECURSIVE SplitParagraphs(_, _, _)
\* re.split(r'\n\s*\n', text)
SplitParagraphs(text, i, from) ==
    IF i >= Len(text) THEN <<PySlice(text, from, Len(text))>>
    ELSE IF text[i + 1] = "\n"
    THEN LET k == LastNewlineEnd(text, i + 1, i + 1)
         IN IF k > i + 1
            THEN <<PySlice(text, from, i)>> \o SplitParagraphs(text, k, k)
            ELSE SplitParagraphs(text, i + 1, from)
    ELSE SplitParagraphs(text, i + 1, from)

RECURSIVE SentenceLoop(_, _, _, _, _)
\* the for loop of _extract_sentences over the pieces left
SentenceLoop(text, pieces, current_pos, candidates, st) ==
    IF pieces = <<>> THEN candidates
    ELSE LET sentence == Strip(Head(pieces))
             start_pos == PyFind(text, sentence, current_pos)
             end_pos == start_pos + Len(sentence)
             confidence == ScoreSentence(sentence, st)
         IN IF sentence = <<>>
            THEN SentenceLoop(text, Tail(pieces), current_pos, candidates, st)
            ELSE IF start_pos = -1
            THEN SentenceLoop(text, Tail(pieces), current_pos + Len(sentence) + 1,
                              candidates, st)
            ELSE SentenceLoop(text, Tail(pieces), end_pos + 1,
                     IF confidence > 0
                     THEN Append(candidates,
                                 AnswerCandidate(sentence, start_pos, end_pos, confidence,
                                                 "sentences", <<>>))
                     ELSE candidates,
                     st)

\* _extract_sentences
ExtractSentences(text, st) ==
    SentenceLoop(text, SplitSentences(text, 0, 0), 0, <<>>, st)

RECURSIVE ParagraphLoop(_, _, _, _, _)
\* the for loop of _extract_paragraphs over the pieces left
ParagraphLoop(text, pieces, current_pos, candidates, st) ==
    IF pieces = <<>> THEN candidates
    ELSE LET paragraph == Strip(Head(pieces))
             start_pos == PyFind(text, paragraph, current_pos)
             end_pos == start_pos + Len(paragraph)
             confidence == ScoreParagraph(paragraph, st)
         IN IF paragraph = <<>>
            THEN ParagraphLoop(text, Tail(pieces), current_pos, candidates, st)
            ELSE IF start_pos = -1
            THEN ParagraphLoop(text, Tail(pieces), current_pos + Len(paragraph) + 2,
                               candidates, st)
            ELSE ParagraphLoop(text, Tail(pieces), end_pos + 2,
                     IF /\ confidence > 0
                        /\ st.min_answer_length <= Len(paragraph)
                        /\ Len(paragraph) <= st.max_answer_length
                     THEN Append(candidates,
                                 AnswerCandidate(paragraph, start_pos, end_pos, confidence,
                                                 "paragraphs", <<>>))
                     ELSE candidates,
                     st)

\* _extract_paragraphs
ExtractParagraphs(text, st) ==
    ParagraphLoop(text, SplitParagraphs(text, 0, 0), 0, <<>>, st)

RECURSIVE InsertByStart(_, _)
\* c put behind every candidate of the sorted list that starts no later
InsertByStart(sorted, c) ==
    IF sorted = <<>> THEN <<c>>
    ELSE IF Head(sorted).start_pos <= c.start_pos
    THEN <<Head(sorted)>> \o InsertByStart(Tail(sorted), c)
    ELSE <<c>> \o sorted

RECURSIVE SortByStart(_)
\* candidates.sort(key=lambda x: x.start_pos), a stable sort
SortByStart(candidates) ==
    IF candidates = <<>> THEN <<>>
    ELSE InsertByStart(SortByStart(SubSeq(candidates, 1, Len(candidates) - 1)),
                       candidates[Len(candidates)])

\* the insertion of a sort that puts a candidate before those of equal
\* confidence
RECURSIVE InsertBeforeTies(_, _)
InsertBeforeTies(sorted, c) ==
    IF sorted = <<>> THEN <<c>>
    ELSE IF Head(sorted).confidence > c.confidence
    THEN <<Head(sorted)>> \o InsertBeforeTies(Tail(sorted), c)
    ELSE <<c>> \o sorted

RECURSIVE InsertByConfidence(_, _)
InsertByConfidence(sorted, c) ==
    IF sorted = <<>> THEN <<c>>
    ELSE IF Head(sorted).confidence >= c.confidence
    THEN <<Head(sorted)>> \o InsertByConfidence(Tail(sorted), c)
    ELSE <<c>> \o sorted

RECURSIVE SortByConfidence(_)
\* candidates.sort(key=lambda x: x.confidence, reverse=True), a stable sort
SortByConfidence(candidates) ==
    IF candidates = <<>> THEN <<>>
    ELSE InsertByConfidence(SortByConfidence(SubSeq(candidates, 1, Len(candidates) - 1)),
                            candidates[Len(candidates)])

\* list.remove(x): the list without its first element equal to x
RemoveFirst(list, x) ==
    LET k == CHOOSE i \in 1..Len(list) : list[i] = x /\ \A j \in 1..(i - 1) : list[j] # x
    IN SubSeq(list, 1, k - 1) \o SubSeq(list, k + 1, Len(list))

\* overlap_ratio > 0.7 for two candidates
OverlapsTooMuch(candidate, existing) ==
    LET overlap_start == Max(candidate.start_pos, existing.start_pos)
        overlap_end == Min(candidate.end_pos, existing.end_pos)
        overlap_length == Max(0, overlap_end - overlap_start)
        min_length == Min(Len(candidate.text), Len(existing.text))
    IN min_length > 0 /\ overlap_length * 10 > 7 * min_length

RECURSIVE DedupLoop(_, _)
\* the for loop of _deduplicate_candidates over the candidates left
DedupLoop(candidates, deduplicated) ==
    IF candidates = <<>> THEN deduplicated
    ELSE LET candidate == Head(candidates)
             hits == {k \in 1..Len(deduplicated) :
                         OverlapsTooMuch(candidate, deduplicated[k])}
         IN IF hits = {}
            THEN DedupLoop(Tail(candidates), Append(deduplicated, candidate))
            ELSE LET existing == deduplicated[CHOOSE k \in hits : \A j \in hits : k <= j]
                 IN IF candidate.confidence > existing.confidence
                    THEN DedupLoop(Tail(candidates),
                                   Append(RemoveFirst(deduplicated, existing), candidate))
                    ELSE DedupLoop(Tail(candidates), deduplicated)

\* _deduplicate_candidates
DeduplicateCandidates(candidates) ==
    IF candidates = <<>> THEN candidates
    ELSE DedupLoop(SortByStart(candidates), <<>>)

\* re.sub(r'[^\w\s]', '', text)
RECURSIVE RemovePunctuation(_)
RemovePunctuation(text) ==
    IF text = <<>> THEN <<>>
    ELSE IF Head(text) \in Punctuation THEN RemovePunctuation(Tail(text))
    ELSE <<Head(text)>> \o RemovePunctuation(Tail(text))

\* re.search(r'[A-Z]{5,}', text)
HasCapitalRun(text) ==
    \E i \in 1..(Len(text) - 4) : \A k \in 0..4 : text[i + k] \in UpperCase

\* the test with the confidence comparison turned round
PassesFilterAboveDropped(candidate, st) ==
    /\ ~(candidate.confidence > st.min_confidence)
    /\ ~(Len(candidate.text) < st.min_answer_length)
    /\ ~(Len(candidate.text) > st.max_answer_length)
    /\ ~(Len(Strip(RemovePunctuation(candidate.text))) * 10 < st.min_answer_length * 7)
    /\ ~HasCapitalRun(candidate.text)

\* the test of _filter_candidates' loop: the candidate is kept
PassesFilter(candidate, st) ==
    /\ ~(candidate.confidence < st.min_confidence)
    /\ ~(Len(candidate.text) < st.min_answer_length)
    /\ ~(Len(candidate.text) > st.max_answer_length)
    /\ ~(Len(Strip(RemovePunctuation(candidate.text))) * 10 < st.min_answer_length * 7)
    /\ ~HasCapitalRun(candidate.text)

\* _filter_candidates appending the candidate with its cleaned text
RECURSIVE FilterCandidatesStoringCleanText(_, _)
FilterCandidatesStoringCleanText(candidates, st) ==
    IF candidates = <<>> THEN <<>>
    ELSE IF PassesFilter(Head(candidates), st)
    THEN <<[Head(candidates) EXCEPT !.text = Strip(RemovePunctuation(@))]>>
             \o FilterCandidatesStoringCleanText(Tail(candidates), st)
    ELSE FilterCandidatesStoringCleanText(Tail(candidates), st)

\* _filter_candidates
RECURSIVE FilterCandidates(_, _)
FilterCandidates(candidates, st) ==
    IF candidates = <<>> THEN <<>>
    ELSE IF PassesFilter(Head(candidates), st)
    THEN <<Head(candidates)>> \o FilterCandidates(Tail(candidates), st)
    ELSE FilterCandidates(Tail(candidates), st)

\* the methods of extract_answers the model holds; a name the if/elif chain
\* does not know adds nothing
RECURSIVE ExtractByMethods(_, _, _)
ExtractByMethods(text, methods, st) ==
    IF methods = <<>> THEN <<>>
    ELSE (IF Head(methods) = "sentences" THEN ExtractSentences(text, st)
          ELSE IF Head(methods) = "paragraphs" THEN ExtractParagraphs(text, st)
          ELSE <<>>)
         \o ExtractByMethods(text, Tail(methods), st)

\* extract_answers(text, methods)
ExtractAnswers(text, methods, st) ==
    SortByConfidence(FilterCandidates(DeduplicateCandidates(
        ExtractByMethods(text, methods, st)), st))

\* _extract_from_chunk(content, methods, char_offset)
ExtractFromChunk(content, methods, char_offset, st) ==
    LET candidates == ExtractAnswers(content, methods, st)
    IN [k \in 1..Len(candidates) |->
           [candidates[k] EXCEPT !.start_pos = @ + char_offset,
                                 !.end_pos = @ + char_offset]]

\* re.sub(r'\s+', ' ', text)
RECURSIVE CollapseWhitespace(_)
CollapseWhitespace(text) ==
    IF text = <<>> THEN <<>>
    ELSE IF Head(text) \in Whitespace
    THEN <<" ">> \o CollapseWhitespace(SubSeq(text, RunEnd(text, 0, Whitespace) + 1, Len(text)))
    ELSE <<Head(text)>> \o CollapseWhitespace(Tail(text))

\* _fuzzy_find_answer
FuzzyFindAnswer(answer_text, source_text) ==
    LET normalized_answer == CollapseWhitespace(Strip(answer_text))
        normalized_source == CollapseWhitespace(source_text)
        clean_answer == RemovePunctuation(normalized_answer)
        clean_source == RemovePunctuation(normalized_source)
    IN IF PyFind(normalized_source, normalized_answer, 0) # -1
       THEN PyFind(normalized_source, normalized_answer, 0)
       ELSE IF PyFind(clean_source, clean_answer, 0) # -1
       THEN PyFind(source_text, PySlice(answer_text, 0, 20), 0)
       ELSE -1

\* the answer is located by the fuzzy search alone
FindAnswerFuzzyOnly(answer_text, source_text) ==
    FuzzyFindAnswer(answer_text, source_text)

\* start_pos = source_text.find(answer_text), and the fuzzy search if that
\* gave -1
FindAnswer(answer_text, source_text) ==
    IF PyFind(source_text, answer_text, 0) = -1
    THEN FuzzyFindAnswer(answer_text, source_text)
    ELSE PyFind(source_text, answer_text, 0)

RECURSIVE ConvertQaPairsToCandidates(_, _, _)
\* _convert_qa_pairs_to_candidates; AI answers have confidence 0.9
ConvertQaPairsToCandidates(qa_pairs, source_text, char_offset) ==
    IF qa_pairs = <<>> THEN <<>>
    ELSE LET answer_text == Strip(Head(qa_pairs).answer)
             question_text == Strip(Head(qa_pairs).question)
             start_pos == FindAnswer(answer_text, source_text)
             end_pos == start_pos + Len(answer_text)
             rest == ConvertQaPairsToCandidates(Tail(qa_pairs), source_text, char_offset)
         IN IF answer_text = <<>> \/ question_text = <<>> THEN rest
            ELSE IF start_pos # -1
            THEN <<AnswerCandidate(answer_text, start_pos + char_offset,
                                   end_pos + char_offset, 90, "ai", question_text)>> \o rest
            ELSE rest

\* ExtractionProgress; error_message "none" stands for None
ExtractionProgress(current_chunk, total_chunks, candidates_found, current_method, is_complete, error_message) ==
    [current_chunk |-> current_chunk, total_chunks |-> total_chunks,
     candidates_found |-> candidates_found, current_method |-> current_method,
     is_complete |-> is_complete, error_message |-> error_message]

\* AnswerExtractor() / OptimizedAnswerExtractor() as __init__ leaves it; the
\* settings of an OptimizedAnswerExtractor are those of its base_extractor
\* and its own max_candidates_per_chunk and overlap_size.  doc_parser is
\* DocumentParser() after construction; the attribute may be assigned an
\* OptimizedDocumentParser, the only class with load_chunk.
NewExtractor(class, parser) ==
    [class |-> class, doc_parser |-> parser, is_extracting |-> FALSE,
     stop_extraction |-> FALSE, settings |-> DefaultSettings]

NoEngineCall == [op |-> "none", given |-> <<>>, passes |-> <<>>]

(***************************************************************************)
(* The parser specification: one file is opened, then load_chunk,          *)
(* get_text_at_position and search_in_document are called in any order.    *)
(***************************************************************************)
\* what a PDF page can hold
PageTexts == {<<>>, <<"a", "b">>}

TextSources ==
    {[ext |-> "txt", text |-> t, pages |-> <<>>, max_chars |-> max_chars_per_chunk] :
        t \in SeqsUpTo(FileAlphabet, MaxFileLen)}

PdfSources ==
    {[ext |-> "pdf", text |-> <<>>, pages |-> p, max_chars |-> max_chars_per_chunk] :
        p \in SeqsUpTo(PageTexts, MaxPages)}

SearchTerms == {<<"a">>, <<"E">>}

\* readIds: the chunks this call read from the source; failed: those of them
\* whose read ended in an error; visited: the chunks it called load_chunk for
NoCall == [op |-> "none", a |-> 0, b |-> 0, term |-> <<>>, ret |-> <<>>,
           raised |-> FALSE, visited |-> <<>>, readIds |-> <<>>, failed |-> {}]

ChunkIds(dd) == 0..(Len(dd.index.chunks) - 1)

\* the chunk ids whose read, made by this call, ended in an error
FailedReads(readIds, outs) ==
    {readIds[k] : k \in {j \in 1..Len(readIds) : outs[readIds[j]] \in {"inner_error", "outer_error"}}}

\* the chunks a call will read: not loaded yet and in the set it visits
Unloaded(dd, ids) == {c \in ids : ~dd.index.chunks[c + 1].is_loaded}

\* the chunks whose range meets [start_pos, end_pos)
Overlapping(dd, start_pos, end_pos) ==
    {c \in ChunkIds(dd) : ~(dd.index.chunks[c + 1].char_end <= start_pos
                            \/ dd.index.chunks[c + 1].char_start >= end_pos)}

\* one outcome for each read the call will make ("ok" where it reads nothing)
ReadChoices(dd, ids) ==
    {[c \in ChunkIds(dd) |-> IF c \in ids THEN f[c] ELSE "ok"] :
        f \in [ids -> ReadOutcomes]}

\* the text of the equivalent eagerly-loaded document: the real text of every
\* chunk, in chunk order
DocumentText(src, dd) ==
    Concat([k \in 1..Len(dd.index.chunks) |-> RealChunkText(src, dd.index.chunks[k])])

\* the positions get_text_at_position is asked for: up to one past the end of
\* the text, and never past total_characters
Positions(src, dd) ==
    IF dd.lazy_content
    THEN 0..Min(dd.index.total_characters, Len(DocumentText(src, dd)) + 1)
    ELSE 0..(Len(dd.content) + 1)

InitParser ==
    /\ source \in TextSources \cup PdfSources
    /\ document_data = NoDocument
    /\ last = NoCall
    /\ engine = NoEngineCall
    /\ extractor = NewExtractor("AnswerExtractor", "DocumentParser")
    /\ runs = <<>>

\* _parse_text_lazy returns the index it built
ParseTextLazyOk ==
    /\ ~document_data.parsed
    /\ source.ext = "txt"
    /\ document_data' = ParseTextLazy(source)
    /\ last' = [NoCall EXCEPT !.op = "parse"]
    /\ UNCHANGED <<source, engine, extractor, runs>>

\* _parse_pdf_lazy returns the index it built
ParsePdfLazyOk ==
    /\ ~document_data.parsed
    /\ source.ext = "pdf"
    /\ document_data' = ParsePdfLazy(source)
    /\ last' = [NoCall EXCEPT !.op = "parse"]
    /\ UNCHANGED <<source, engine, extractor, runs>>

\* an exception inside either lazy parse: the except clause parses eagerly
ParseLazyFallback ==
    /\ ~document_data.parsed
    /\ document_data' = ParseRegular(source)
    /\ last' = [NoCall EXCEPT !.op = "parse"]
    /\ UNCHANGED <<source, engine, extractor, runs>>

\* a call of load_chunk(document_data, chunk_id)
CallLoadChunk ==
    /\ document_data.parsed
    /\ \E chunk_id \in 0..Len(document_data.index.chunks) :
       \E outs \in ReadChoices(document_data,
                               Unloaded(document_data, {chunk_id} \cap ChunkIds(document_data))) :
          LET outcome == IF chunk_id \in DOMAIN outs THEN outs[chunk_id] ELSE "ok"
              r == LoadChunk(source, document_data, chunk_id, outcome)
          IN /\ document_data' = r.dd
             /\ last' = [NoCall EXCEPT !.op = "load_chunk", !.a = chunk_id,
                            !.ret = r.ret, !.raised = r.raised,
                            !.visited = <<chunk_id>>,
                            !.readIds = IF r.read THEN <<chunk_id>> ELSE <<>>,
                            !.failed = IF r.read /\ outcome \in {"inner_error", "outer_error"}
                                       THEN {chunk_id} ELSE {}]
    /\ UNCHANGED <<source, engine, extractor, runs>>

\* a call of get_text_at_position(document_data, start_pos, end_pos)
CallGetTextAtPosition ==
    /\ document_data.parsed
    /\ \E start_pos \in Positions(source, document_data),
          end_pos \in Positions(source, document_data) :
       \E outs \in ReadChoices(document_data,
                       Unloaded(document_data, Overlapping(document_data, start_pos, end_pos))) :
          /\ start_pos <= end_pos
          /\ LET r == GetTextAtPosition(source, document_data, start_pos, end_pos, outs)
             IN /\ document_data' = r.dd
                /\ last' = [NoCall EXCEPT !.op = "get_text", !.a = start_pos,
                               !.b = end_pos, !.ret = r.ret, !.raised = r.raised,
                               !.visited = r.visited, !.readIds = r.readIds,
                               !.failed = FailedReads(r.readIds, outs)]
    /\ UNCHANGED <<source, engine, extractor, runs>>

\* a call of search_in_document(document_data, search_term)
CallSearchInDocument ==
    /\ document_data.parsed
    /\ \E term \in SearchTerms,
          outs \in ReadChoices(document_data,
                               Unloaded(document_data, ChunkIds(document_data))) :
          LET r == SearchInDocument(source, document_data, term, outs)
          IN /\ document_data' = r.dd
             /\ last' = [NoCall EXCEPT !.op = "search", !.term = term, !.ret = r.ret,
                            !.raised = r.raised, !.visited = r.visited,
                            !.readIds = r.readIds,
                            !.failed = FailedReads(r.readIds, outs)]
    /\ UNCHANGED <<source, engine, extractor, runs>>

NextParser ==
    \/ ParseTextLazyOk
    \/ ParsePdfLazyOk
    \/ ParseLazyFallback
    \/ CallLoadChunk
    \/ CallGetTextAtPosition
    \/ CallSearchInDocument

SpecParser == InitParser /\ [][NextParser]_vars

(***************************************************************************)
(* Claims about the lazy document layer, checked under SpecParser.         *)
(***************************************************************************)
\* every chunk that is loaded holds the real text of its range
AllLoadsReal ==
    \A k \in 1..Len(document_data.index.chunks) :
        document_data.index.chunks[k].is_loaded
            => document_data.index.chunks[k].content
                   = RealChunkText(source, document_data.index.chunks[k])

\* C1: on a lazily-chunked document get_text_at_position(s, e) returns
\* document_text[s:e] of the equivalent eager document (the chunk texts in
\* chunk order) for every 0 <= s <= e <= total_characters.  Stated here for the
\* calls during and before which no read of the source failed.
C1_GetTextIsGlobalSlice ==
    (/\ last.op = "get_text"
     /\ document_data.lazy_content
     /\ last.b <= document_data.index.total_characters
     /\ last.failed = {}
     /\ AllLoadsReal)
        => last.ret = PySlice(DocumentText(source, document_data), last.a, last.b)

\* C8: in every index the lazy parser builds, chunk ids are 0,1,2,..., the
\* first chunk starts at 0, each chunk starts where the one before ends,
\* every chunk is non-empty and the last one ends at total_characters.
C8_IndexCoversDocument ==
    document_data.lazy_content =>
        LET chunks == document_data.index.chunks
            n == Len(chunks)
        IN /\ \A k \in 1..n : chunks[k].chunk_id = k - 1
           /\ \A k \in 1..n : chunks[k].char_start < chunks[k].char_end
           /\ n > 0 => chunks[1].char_start = 0
           /\ \A k \in 1..(n - 1) : chunks[k + 1].char_start = chunks[k].char_end
           /\ n > 0 => chunks[n].char_end = document_data.index.total_characters
           /\ n = 0 => document_data.index.total_characters = 0

\* C8 witness: an index of several chunks whose last chunk is shorter than
\* max_chars_per_chunk
C8_Witness ==
    /\ document_data.lazy_content
    /\ source.ext = "txt"
    /\ Len(document_data.index.chunks) >= 2
    /\ Len(source.text) % max_chars_per_chunk # 0

\* C9: load_chunk is idempotent: a chunk that is loaded is not read from the
\* source again, stays loaded with the same content, and load_chunk returns
\* that content.
C9_LoadChunkIdempotent ==
    [][\A k \in 1..Len(document_data.index.chunks) :
          document_data.index.chunks[k].is_loaded =>
              /\ document_data'.index.chunks[k] = document_data.index.chunks[k]
              /\ \A j \in 1..Len(last'.readIds) : last'.readIds[j] # k - 1
              /\ (last'.op = "load_chunk" /\ last'.a = k - 1)
                     => last'.ret = document_data.index.chunks[k].content]_vars

\* C9 witness: load_chunk was called for a chunk that was loaded already and
\* answered from the cache
C9_Witness ==
    /\ last.op = "load_chunk"
    /\ last.a < Len(document_data.index.chunks)
    /\ document_data.index.chunks[last.a + 1].is_loaded
    /\ last.readIds = <<>>
    /\ last.ret = document_data.index.chunks[last.a + 1].content

\* C10: a chunk load failure never aborts a scan: no call raises, a failing
\* load_chunk returns an error marker, and search_in_document calls
\* load_chunk for every chunk, in order, whatever failed.
C10_LoadFailureContained ==
    /\ ~last.raised
    /\ (last.op = "load_chunk" /\ last.failed # {}) => last.ret \in ErrorMarkers
    /\ (last.op = "search" /\ document_data.lazy_content)
           => last.visited = [k \in 1..Len(document_data.index.chunks) |-> k - 1]

\* C10 witness: a search during which the read of a chunk that is not the
\* last one failed
C10_Witness ==
    /\ last.op = "search"
    /\ \E c \in last.failed : c + 1 < Len(document_data.index.chunks)
    /\ last.visited = [k \in 1..Len(document_data.index.chunks) |-> k - 1]

\* C28: in every reachable state of a lazy document, a chunk with is_loaded
\* True has content equal to the real text of its range in the underlying
\* source: a load that failed never leaves the chunk marked loaded with
\* something other than its real text.
C28_LoadedChunkHoldsRealText ==
    document_data.lazy_content =>
        \A k \in 1..Len(document_data.index.chunks) :
            document_data.index.chunks[k].is_loaded =>
                document_data.index.chunks[k].content
                    = RealChunkText(source, document_data.index.chunks[k])

\* a chunk without its cache: what the index fixes of it when it is built
ChunkFrame(chunk) ==
    [chunk_id |-> chunk.chunk_id, page_start |-> chunk.page_start,
     page_end |-> chunk.page_end, char_start |-> chunk.char_start,
     char_end |-> chunk.char_end]

\* the index without the caches of its chunks
IndexFrame(index) ==
    [total_pages |-> index.total_pages, total_characters |-> index.total_characters,
     page_char_positions |-> index.page_char_positions,
     chunks |-> [k \in 1..Len(index.chunks) |-> ChunkFrame(index.chunks[k])]]

\* C29: after the index is built, load_chunk, get_text_at_position and
\* search_in_document change nothing in it but chunk content and is_loaded:
\* total_pages, total_characters, page_char_positions, the number and order
\* of the chunks and every chunk's chunk_id, page_start, page_end, char_start
\* and char_end stay as they are under any sequence of these operations.
C29_IndexFrameUnchanged ==
    [][(document_data.parsed /\ document_data.lazy_content) =>
           /\ document_data'.parsed
           /\ document_data'.lazy_content
           /\ IndexFrame(document_data'.index) = IndexFrame(document_data.index)]_vars

\* C29 witness: a search has loaded every chunk of a lazy document of several
\* chunks, one of them by a read that failed, and the index is as it was built
C29_Witness ==
    /\ document_data.lazy_content
    /\ last.op = "search"
    /\ last.failed # {}
    /\ Len(document_data.index.chunks) > 1
    /\ \E k \in 1..Len(document_data.index.chunks) :
           document_data.index.chunks[k].is_loaded /\ document_data.index.chunks[k].content # <<>>
    /\ IndexFrame(document_data.index)
           = IndexFrame((IF source.ext = "pdf" THEN ParsePdfLazy(source)
                         ELSE ParseTextLazy(source)).index)

(***************************************************************************)
(* The engine specification: the post-processing steps of the engine       *)
(* called on a list of candidates, each pass on the result of the one      *)
(* before.                                                                 *)
(***************************************************************************)
\* the text the candidates below are spans of
EngineText == <<"a", "b", "a", "b", "a", "b">>

\* the span lengths and the confidences (0.5 and 0.6) of the candidates drawn
SpanLengths == 1..2

Confidences == {50, 60}

\* the candidates a list is drawn from: spans [start_pos, end_pos) of
\* EngineText with their text
CandidateUniverse ==
    {AnswerCandidate(PySlice(EngineText, b, b + n), b, b + n, c, "sentences", <<>>) :
        b \in 0..(MaxStart - 1), n \in SpanLengths, c \in Confidences}

\* the same candidates, each as many times
SameCandidates(a, b) ==
    /\ Len(a) = Len(b)
    /\ \A c \in CandidateUniverse :
          Cardinality({k \in 1..Len(a) : a[k] = c})
              = Cardinality({k \in 1..Len(b) : b[k] = c})

InitEngine ==
    /\ source = [ext |-> "txt", text |-> EngineText, pages |-> <<>>,
                 max_chars |-> max_chars_per_chunk]
    /\ document_data = NoDocument
    /\ last = NoCall
    /\ engine \in {[NoEngineCall EXCEPT !.given = L] :
                      L \in SeqsUpTo(CandidateUniverse, MaxCandidates)}
    /\ extractor = NewExtractor("AnswerExtractor", "DocumentParser")
    /\ runs = <<>>

\* _deduplicate_candidates called on the list given, then on its own result
CallDeduplicate ==
    /\ engine.op \in {"none", "dedup"}
    /\ Len(engine.passes) < MaxPasses
    /\ engine' = [engine EXCEPT
                     !.op = "dedup",
                     !.passes = Append(@, DeduplicateCandidates(
                                    IF engine.passes = <<>> THEN engine.given
                                    ELSE engine.passes[Len(engine.passes)]))]
    /\ UNCHANGED <<source, document_data, last, extractor, runs>>

NextEngine ==
    \/ CallDeduplicate

SpecEngine == InitEngine /\ [][NextEngine]_vars

(***************************************************************************)
(* Claims about the engine's post-processing, checked under SpecEngine.    *)
(***************************************************************************)
\* C3: deduplication is idempotent: _deduplicate_candidates applied to its
\* own result returns exactly the same candidates (a second pass removes
\* nothing).
C3_DedupIdempotent ==
    (engine.op = "dedup" /\ Len(engine.passes) >= 2)
        => SameCandidates(engine.passes[2], engine.passes[1])

\* how many times the candidate is in the list
CountIn(candidates, c) == Cardinality({k \in 1..Len(candidates) : candidates[k] = c})

\* every candidate the first pass dropped has a candidate in the output that
\* overlaps it by more than 0.7 and has at least its confidence
DroppedHaveBetterKept ==
    \A c \in CandidateUniverse :
        CountIn(engine.passes[1], c) < CountIn(engine.given, c) =>
            \E k \in 1..Len(engine.passes[1]) :
                /\ OverlapsTooMuch(c, engine.passes[1][k])
                /\ engine.passes[1][k].confidence >= c.confidence

\* no two candidates of the output overlap by more than 0.7
OutputFreeOfOverlap ==
    \A j \in 1..Len(engine.passes[1]) : \A k \in 1..Len(engine.passes[1]) :
        j # k => ~OverlapsTooMuch(engine.passes[1][j], engine.passes[1][k])

\* C24: highest confidence wins within an overlap cluster: every candidate
\* that _deduplicate_candidates drops has a candidate in the output whose
\* overlap ratio with it is above 0.7 and whose confidence is not lower, and
\* the output never holds two candidates whose overlap ratio is above 0.7.
C24_HighestConfidenceWins ==
    engine.op = "dedup" => DroppedHaveBetterKept /\ OutputFreeOfOverlap

(***************************************************************************)
(* The run specification: a document is opened, the extractor may be       *)
(* configured, and one extraction is run on it, directly or on a worker    *)
(* thread, while the caller may ask it to stop at any moment.              *)
(***************************************************************************)
\* the max_chars_per_chunk of the parser that opens the files below
RunChunkChars == 8

\* the files: three chunks of two sentences each; a chunk with a statement, a
\* blank chunk and a chunk with a question; one short chunk; an empty file; two
\* chunks, the better sentence in the second; three chunks, the first with
\* nothing long enough to extract and a sentence across its end
RunTexts ==
    {<<"a", "a", "a", ".", " ", "b", "b", "b", "c", "c", "c", ".", " ", "d", "d", "d", "e", "e", "e", ".", " ", "f", "f", "f">>,
     <<"b", " ", "i", "s", " ", "a", ".", " ", " ", " ", " ", " ", " ", " ", " ", " ", "c", "c", "?", " ", "b", "b", "b">>,
     <<"a", "a", "a", ".", " ", "b", "b">>,
     <<>>,
     <<"a", "a", "a", ".", " ", "b", "b", "b", "b", " ", "i", "s", " ", "a", ".">>,
     <<"a", ".", " ", "b", ".", " ", "c", "c", "c", "d", "d", ".", " ", "e", "e", "e", ".", " ", "f", "f", "f", "f", "f">>}

RunSources ==
    {[ext |-> "txt", text |-> t, pages |-> <<>>, max_chars |-> RunChunkChars] :
        t \in RunTexts}

\* a keyword argument that is not passed
NotPassed == -1

\* the keyword arguments update_extraction_settings is called with; the last
\* two are invalid: min_length above max_length, min_confidence 1.5
SettingsKwargs ==
    {[max_candidates_per_chunk |-> NotPassed, overlap_size |-> 2, min_length |-> 3,
      max_length |-> NotPassed, min_confidence |-> NotPassed],
     [max_candidates_per_chunk |-> 1, overlap_size |-> 1, min_length |-> 3,
      max_length |-> NotPassed, min_confidence |-> NotPassed],
     [max_candidates_per_chunk |-> NotPassed, overlap_size |-> NotPassed, min_length |-> 3,
      max_length |-> 2, min_confidence |-> NotPassed],
     [max_candidates_per_chunk |-> NotPassed, overlap_size |-> NotPassed,
      min_length |-> NotPassed, max_length |-> NotPassed, min_confidence |-> 150]}

\* update_extraction_settings(**kwargs), set_filters included
UpdatedSettings(st, kwargs) ==
    [max_candidates_per_chunk |->
         IF kwargs.max_candidates_per_chunk # NotPassed
         THEN kwargs.max_candidates_per_chunk ELSE st.max_candidates_per_chunk,
     overlap_size |->
         IF kwargs.overlap_size # NotPassed THEN kwargs.overlap_size ELSE st.overlap_size,
     min_answer_length |->
         IF kwargs.min_length # NotPassed THEN kwargs.min_length ELSE st.min_answer_length,
     max_answer_length |->
         IF kwargs.max_length # NotPassed THEN kwargs.max_length ELSE st.max_answer_length,
     min_confidence |->
         IF kwargs.min_confidence # NotPassed THEN kwargs.min_confidence
         ELSE st.min_confidence]

\* the default of max_candidates
DefaultMaxCandidates == 5000

\* the arguments of a call of extract_answers_optimized or
\* extract_answers_threaded: methods, max_candidates, the callbacks passed and
\* ai_config ("none" is None, "malformed" an object LLMClient cannot use)
RuleRequests ==
    {[methods |-> m, max_candidates |-> n, callbacks |-> cb, ai_config |-> "none"] :
        m \in {<<>>, <<"sentences">>, <<"sentences", "paragraphs">>},
        n \in {0, 1, DefaultMaxCandidates},
        cb \in {{"progress", "completion", "error"}, {"progress"}}}

AiRequests ==
    {[methods |-> <<"ai">>, max_candidates |-> n, callbacks |-> cb, ai_config |-> c] :
        n \in {0, 1, DefaultMaxCandidates},
        cb \in {{"progress", "completion", "error"}, {"progress"}},
        c \in {"none", "valid", "malformed"}}

Requests == RuleRequests \cup AiRequests

\* a run: the request, how it was entered ("threaded" or "direct"), where its
\* code stands (pc), the loop variables of the lazy loops, what the callbacks
\* were called with, the result returned or the exception raised, the
\* exception extract_answers_ai caught and answered with an empty list
\* (caught), the number of load_chunk calls (loads) and of engine or LLM
\* calls (units) made, and the number of those units that failed: the load
\* gave an error message, or the service call raised and was logged
\* (unit_failures), and the units of the lazy loops in the order they were
\* started, each the chunk's id and the method (started)
NewRun(entry, request, pc) ==
    [entry |-> entry, request |-> request, pc |-> pc,
     chunk_idx |-> 0, method_idx |-> 0, chunk_content |-> <<>>,
     all_candidates |-> <<>>, result |-> <<>>, raised |-> "none", caught |-> "none",
     progress |-> <<>>, completions |-> <<>>, errors |-> <<>>,
     loads |-> 0, units |-> 0, unit_failures |-> 0, started |-> <<>>]

\* progress_callback(progress), when a progress callback was passed
Report(run, progress) ==
    IF "progress" \in run.request.callbacks
    THEN [run EXCEPT !.progress = Append(@, progress)]
    ELSE run

\* an exception leaves extract_answers_optimized
Raise(run, error) == [run EXCEPT !.pc = "except", !.raised = error]

\* extract_answers_optimized returns the candidates without the cut
ReturnUncut(run, candidates) ==
    [run EXCEPT !.pc = "return", !.result = candidates]

\* extract_answers_optimized returns candidates[:max_candidates]
Return(run, candidates) ==
    [run EXCEPT !.pc = "return",
                !.result = PySlice(candidates, 0, run.request.max_candidates)]

\* what the question generation service answers for a text: it fails, or
\* returns pairs whose answers are the first characters of the text (sent
\* with a leading blank) and the text with its whitespace collapsed
LLMReplies(text) ==
    {[raised |-> TRUE, qa_pairs |-> <<>>],
     [raised |-> FALSE,
      qa_pairs |-> <<[question |-> <<"q">>, answer |-> <<" ">> \o PySlice(Strip(text), 0, 3)]>>],
     [raised |-> FALSE,
      qa_pairs |-> <<[question |-> <<"q">>, answer |-> <<" ">> \o PySlice(Strip(text), 0, 3)],
                     [question |-> <<"q">>, answer |-> CollapseWhitespace(Strip(text))]>>]}

\* extract_answers_ai up to its first chunk, or to its end on a document held
\* in memory; reply is what the service answers if it is asked
ExtractAnswersAi(run, dd, reply) ==
    IF run.request.ai_config = "malformed"
    THEN Return(Report([run EXCEPT !.caught = "config_error"],
                       ExtractionProgress(0, 0, 0, "ai", TRUE, "config_error")), <<>>)
    ELSE IF dd.lazy_content THEN [run EXCEPT !.pc = "ai_chunk"]
    ELSE IF dd.content = <<>> THEN Return(run, <<>>)
    ELSE LET started == Report([run EXCEPT !.units = @ + 1],
                               ExtractionProgress(1, 1, 0, "ai", FALSE, "none"))
             all_candidates == ConvertQaPairsToCandidates(reply.qa_pairs, dd.content, 0)
         IN IF reply.raised
            THEN Return(Report([started EXCEPT !.caught = "llm_error"],
                               ExtractionProgress(1, 1, 0, "ai", TRUE, "llm_error")),
                        <<>>)
            ELSE Return(Report([started EXCEPT !.all_candidates = all_candidates],
                               ExtractionProgress(1, 1, Len(all_candidates), "ai", TRUE,
                                                  "none")),
                        all_candidates)

\* extract_answers_optimized up to its first chunk, or to its end on a document
\* held in memory.  Only AnswerExtractor knows the method 'ai'.
ExtractAnswersOptimized(run, ext, dd, reply) ==
    IF ext.class = "AnswerExtractor"
       /\ \E k \in 1..Len(run.request.methods) : run.request.methods[k] = "ai"
    THEN IF run.request.ai_config = "none" THEN Raise(run, "ValueError")
         ELSE ExtractAnswersAi(run, dd, reply)
    ELSE IF dd.lazy_content THEN [run EXCEPT !.pc = "chunk"]
    ELSE LET all_candidates == ExtractAnswers(dd.content, run.request.methods, ext.settings)
         IN Return(Report([run EXCEPT !.units = @ + 1, !.all_candidates = all_candidates],
                          ExtractionProgress(1, 1, Len(all_candidates), "complete", TRUE,
                                             "none")),
                   all_candidates)

\* the two tests at the top of the chunk loops, with the stop flag not polled
ChunkLoopBreaksIgnoringStop(run, ext) ==
    Len(run.all_candidates) >= run.request.max_candidates

\* the two tests at the top of the chunk loops: stop requested, or enough found
ChunkLoopBreaks(run, ext) ==
    ext.stop_extraction \/ Len(run.all_candidates) >= run.request.max_candidates

\* the test at the top of the method loop
MethodLoopBreaks(run, ext) ==
    ext.stop_extraction \/ Len(run.all_candidates) >= run.request.max_candidates

\* the chunk's content with the tail of the previous chunk put in front
WithOverlap(run, dd, chunk_content, st) ==
    IF /\ run.chunk_idx > 0
       /\ Len(run.all_candidates) > 0
       /\ dd.index.chunks[run.chunk_idx].is_loaded
    THEN PyTail(dd.index.chunks[run.chunk_idx].content, st.overlap_size) \o chunk_content
    ELSE chunk_content

\* how a read of the chunk can end if load_chunk reads it
ReadsOf(chunk) == IF chunk.is_loaded THEN {"ok"} ELSE ReadOutcomes

\* the final pass of _extract_from_lazy_document
FinalPass(candidates, st) == FilterCandidates(DeduplicateCandidates(candidates), st)

InitRun ==
    /\ source \in RunSources
    /\ document_data = NoDocument
    /\ last = NoCall
    /\ engine = NoEngineCall
    /\ extractor \in {NewExtractor(c, p) :
                         c \in {"AnswerExtractor", "OptimizedAnswerExtractor"},
                         p \in {"DocumentParser", "OptimizedDocumentParser"}}
    /\ runs = <<>>

\* update_extraction_settings(**kwargs), called before the extraction
UpdateExtractionSettings ==
    /\ runs = <<>>
    /\ extractor.settings = DefaultSettings
    /\ \E kwargs \in SettingsKwargs :
          extractor' = [extractor EXCEPT !.settings = UpdatedSettings(@, kwargs)]
    /\ UNCHANGED <<source, document_data, last, engine, runs>>

\* extract_answers_threaded(...): the thread is created and started
StartThreaded ==
    /\ runs = <<>>
    /\ document_data.parsed
    /\ \E request \in Requests :
          /\ extractor.class = "OptimizedAnswerExtractor" => request.ai_config = "none"
          /\ runs' = <<NewRun("threaded", request, "start")>>
    /\ UNCHANGED <<source, document_data, last, engine, extractor>>

\* extract_answers_optimized(...) called by the caller itself
CallExtractAnswersOptimized ==
    /\ runs = <<>>
    /\ document_data.parsed
    /\ \E request \in Requests, reply \in LLMReplies(document_data.content) :
          /\ request.callbacks = {"progress"}
          /\ extractor.class = "OptimizedAnswerExtractor" => request.ai_config = "none"
          /\ runs' = <<ExtractAnswersOptimized(NewRun("direct", request, "call"),
                                               extractor, document_data, reply)>>
    /\ UNCHANGED <<source, document_data, last, engine, extractor>>

\* extraction_worker starts: the flags are set and extract_answers_optimized
\* is entered
WorkerBegin ==
    \E i \in 1..Len(runs), reply \in LLMReplies(document_data.content) :
       /\ runs[i].pc = "start"
       /\ extractor' = [extractor EXCEPT !.is_extracting = TRUE, !.stop_extraction = FALSE]
       /\ runs' = [runs EXCEPT ![i] = ExtractAnswersOptimized(runs[i], extractor,
                                                              document_data, reply)]
       /\ UNCHANGED <<source, document_data, last, engine>>

\* one pass of the chunk loop of _extract_from_lazy_document down to the
\* method loop: the tests, load_chunk, the overlap
ChunkStep ==
    \E i \in 1..Len(runs) :
       /\ runs[i].pc = "chunk"
       /\ LET run == runs[i]
              chunks == document_data.index.chunks
          IN IF run.chunk_idx >= Len(chunks) \/ ChunkLoopBreaks(run, extractor)
             THEN /\ runs' = [runs EXCEPT ![i].pc = "final"]
                  /\ UNCHANGED document_data
             ELSE IF extractor.doc_parser = "DocumentParser"
             THEN /\ runs' = [runs EXCEPT ![i] = Raise(run, "AttributeError")]
                  /\ UNCHANGED document_data
             ELSE \E outcome \in ReadsOf(chunks[run.chunk_idx + 1]) :
                     LET r == LoadChunk(source, document_data,
                                        chunks[run.chunk_idx + 1].chunk_id, outcome)
                     IN /\ document_data' = r.dd
                        /\ runs' = [runs EXCEPT ![i] =
                               [run EXCEPT !.chunk_content =
                                               WithOverlap(run, r.dd, r.ret, extractor.settings),
                                           !.method_idx = 0,
                                           !.pc = "method",
                                           !.loads = @ + 1,
                                           !.unit_failures =
                                               IF r.ret \in ErrorMarkers THEN @ + 1 ELSE @]]
       /\ UNCHANGED <<source, last, engine, extractor>>

\* the method loop takes the methods from the last to the first
MethodAtReversed(run) ==
    run.request.methods[Len(run.request.methods) - run.method_idx]

\* for method in methods: the method the loop stands at
MethodAt(run) ==
    run.request.methods[run.method_idx + 1]

\* one pass of the method loop (none for an empty method list): the test,
\* the progress record, the engine on the chunk for this method, the cap per
\* chunk
MethodStep ==
    \E i \in 1..Len(runs) :
       /\ runs[i].pc = "method"
       /\ LET run == runs[i]
              chunks == document_data.index.chunks
              chunk == chunks[run.chunk_idx + 1]
              method == MethodAt(run)
              st == extractor.settings
              chunk_candidates ==
                  PySlice(ExtractFromChunk(run.chunk_content, <<method>>, chunk.char_start, st),
                          0, st.max_candidates_per_chunk)
              last_method == run.method_idx + 1 >= Len(run.request.methods)
              reported == Report(run, ExtractionProgress(run.chunk_idx + 1, Len(chunks),
                                                         Len(run.all_candidates), method,
                                                         FALSE, "none"))
          IN IF run.method_idx >= Len(run.request.methods) \/ MethodLoopBreaks(run, extractor)
             THEN runs' = [runs EXCEPT ![i] = [run EXCEPT !.chunk_idx = @ + 1,
                                                          !.pc = "chunk"]]
             ELSE runs' = [runs EXCEPT ![i] =
                      [reported EXCEPT !.all_candidates = @ \o chunk_candidates,
                                       !.units = @ + 1,
                                       !.started = Append(@, [chunk_id |-> chunk.chunk_id,
                                                              method |-> method]),
                                       !.method_idx = IF last_method THEN 0 ELSE @ + 1,
                                       !.chunk_idx = IF last_method THEN @ + 1 ELSE @,
                                       !.pc = IF last_method THEN "chunk" ELSE "method"]]
       /\ UNCHANGED <<source, document_data, last, engine, extractor>>

\* the end of _extract_from_lazy_document: the final pass, the final record,
\* and the return of extract_answers_optimized
Finalize ==
    \E i \in 1..Len(runs) :
       /\ runs[i].pc = "final"
       /\ LET run == runs[i]
              total_chunks == Len(document_data.index.chunks)
              all_candidates == FinalPass(run.all_candidates, extractor.settings)
          IN runs' = [runs EXCEPT ![i] =
                 Return(Report(run, ExtractionProgress(total_chunks, total_chunks,
                                                       Len(all_candidates), "complete",
                                                       TRUE, "none")),
                        all_candidates)]
       /\ UNCHANGED <<source, document_data, last, engine, extractor>>

\* one pass of the chunk loop of _extract_ai_from_lazy_document (no
\* chunk_range): the tests, load_chunk, the blank-chunk skip, the progress
\* record, the service call and the conversion of its answer
AiChunkStep ==
    \E i \in 1..Len(runs) :
       /\ runs[i].pc = "ai_chunk"
       /\ LET run == runs[i]
              chunks == document_data.index.chunks
          IN IF run.chunk_idx >= Len(chunks) \/ ChunkLoopBreaks(run, extractor)
             THEN /\ runs' = [runs EXCEPT ![i].pc = "ai_final"]
                  /\ UNCHANGED document_data
             ELSE IF extractor.doc_parser = "DocumentParser"
             THEN /\ runs' = [runs EXCEPT ![i] = Raise(run, "AttributeError")]
                  /\ UNCHANGED document_data
             ELSE \E outcome \in ReadsOf(chunks[run.chunk_idx + 1]) :
                     LET chunk == chunks[run.chunk_idx + 1]
                         r == LoadChunk(source, document_data, chunk.chunk_id, outcome)
                         chunk_content == r.ret
                         loaded == [run EXCEPT !.loads = @ + 1, !.chunk_idx = @ + 1,
                                               !.chunk_content = chunk_content,
                                               !.unit_failures =
                                                   IF r.ret \in ErrorMarkers THEN @ + 1
                                                   ELSE @]
                         reported == Report(loaded,
                                            ExtractionProgress(run.chunk_idx + 1, Len(chunks),
                                                               Len(run.all_candidates), "ai",
                                                               FALSE, "none"))
                     IN /\ document_data' = r.dd
                        /\ IF Strip(chunk_content) = <<>>
                           THEN runs' = [runs EXCEPT ![i] = loaded]
                           ELSE \E reply \in LLMReplies(chunk_content) :
                                   runs' = [runs EXCEPT ![i] =
                                       [reported EXCEPT
                                           !.units = @ + 1,
                                           !.started = Append(@, [chunk_id |-> chunk.chunk_id,
                                                                  method |-> "ai"]),
                                           !.unit_failures =
                                               IF reply.raised THEN @ + 1 ELSE @,
                                           !.all_candidates =
                                               IF reply.raised THEN @
                                               ELSE @ \o ConvertQaPairsToCandidates(
                                                            reply.qa_pairs, chunk_content,
                                                            chunk.char_start)]]
       /\ UNCHANGED <<source, last, engine, extractor>>

\* the end of _extract_ai_from_lazy_document: the final record, and the
\* return of extract_answers_ai
AiFinalize ==
    \E i \in 1..Len(runs) :
       /\ runs[i].pc = "ai_final"
       /\ LET run == runs[i]
              total_progress == Len(document_data.index.chunks)
          IN runs' = [runs EXCEPT ![i] =
                 Return(Report(run, ExtractionProgress(total_progress, total_progress,
                                                       Len(run.all_candidates), "ai",
                                                       TRUE, "none")),
                        run.all_candidates)]
       /\ UNCHANGED <<source, document_data, last, engine, extractor>>

\* extract_answers_optimized has returned: the worker calls the completion
\* callback (OptimizedAnswerExtractor: unless stop was requested); a direct
\* call hands the list to its caller
ExtractionReturns ==
    \E i \in 1..Len(runs) :
       /\ runs[i].pc = "return"
       /\ LET run == runs[i]
              delivers == /\ "completion" \in run.request.callbacks
                          /\ (extractor.class = "OptimizedAnswerExtractor"
                                 => ~extractor.stop_extraction)
          IN runs' = [runs EXCEPT ![i] =
                 IF run.entry = "direct" THEN [run EXCEPT !.pc = "done"]
                 ELSE [run EXCEPT !.pc = "finally",
                                  !.completions = IF delivers THEN Append(@, run.result)
                                                  ELSE @]]
       /\ UNCHANGED <<source, document_data, last, engine, extractor>>

\* an exception has left extract_answers_optimized: the worker's except
\* clause calls the error callback, or else reports an error record; a direct
\* call lets its caller have the exception
ExtractionRaises ==
    \E i \in 1..Len(runs) :
       /\ runs[i].pc = "except"
       /\ LET run == runs[i]
          IN runs' = [runs EXCEPT ![i] =
                 IF run.entry = "direct" THEN [run EXCEPT !.pc = "done"]
                 ELSE IF "error" \in run.request.callbacks
                 THEN [run EXCEPT !.pc = "finally", !.errors = Append(@, run.raised)]
                 ELSE [Report(run, ExtractionProgress(0, 0, 0, "error", TRUE, run.raised))
                          EXCEPT !.pc = "finally"]]
       /\ UNCHANGED <<source, document_data, last, engine, extractor>>

\* the finally clause of extraction_worker
WorkerFinally ==
    \E i \in 1..Len(runs) :
       /\ runs[i].pc = "finally"
       /\ runs' = [runs EXCEPT ![i].pc = "done"]
       /\ extractor' = [extractor EXCEPT !.is_extracting = FALSE]
       /\ UNCHANGED <<source, document_data, last, engine>>

\* stop_current_extraction(), called by the caller at any moment
StopCurrentExtraction ==
    /\ ~extractor.stop_extraction
    /\ extractor' = [extractor EXCEPT !.stop_extraction = TRUE]
    /\ UNCHANGED <<source, document_data, last, engine, runs>>

NextRun ==
    \/ ParseTextLazyOk
    \/ ParseLazyFallback
    \/ UpdateExtractionSettings
    \/ StartThreaded
    \/ CallExtractAnswersOptimized
    \/ WorkerBegin
    \/ ChunkStep
    \/ MethodStep
    \/ Finalize
    \/ AiChunkStep
    \/ AiFinalize
    \/ ExtractionReturns
    \/ ExtractionRaises
    \/ WorkerFinally
    \/ StopCurrentExtraction

SpecRun == InitRun /\ [][NextRun]_vars

(***************************************************************************)
(* The threads specification: extract_answers_threaded is called on one    *)
(* extractor, again while earlier workers may still be running.            *)
(***************************************************************************)
\* calls of extract_answers_threaded made on the extractor
MaxThreads == 2

ThreadRequests ==
    {[methods |-> <<"sentences">>, max_candidates |-> DefaultMaxCandidates,
      callbacks |-> {"progress", "completion", "error"}, ai_config |-> "none"]}

\* the files of at most two chunks
ThreadSources == {s \in RunSources : Len(s.text) <= 2 * RunChunkChars}

\* an extractor that was given a parser with load_chunk and settings for the
\* small files, and a file that was opened
InitThreads ==
    /\ source \in ThreadSources
    /\ document_data \in {ParseTextLazy(source), ParseRegular(source)}
    /\ last = NoCall
    /\ engine = NoEngineCall
    /\ extractor \in {[NewExtractor(c, "OptimizedDocumentParser") EXCEPT
                          !.settings = UpdatedSettings(DefaultSettings, kwargs)] :
                         c \in {"AnswerExtractor", "OptimizedAnswerExtractor"},
                         kwargs \in SettingsKwargs}
    /\ runs = <<>>

\* extract_answers_threaded(...), whatever earlier workers are doing: nothing
\* in the method looks at is_extracting
StartThreadedAgain ==
    /\ Len(runs) < MaxThreads
    /\ \E request \in ThreadRequests :
          runs' = Append(runs, NewRun("threaded", request, "start"))
    /\ UNCHANGED <<source, document_data, last, engine, extractor>>

NextThreads ==
    \/ StartThreadedAgain
    \/ WorkerBegin
    \/ ChunkStep
    \/ MethodStep
    \/ Finalize
    \/ ExtractionReturns
    \/ WorkerFinally
    \/ StopCurrentExtraction

SpecThreads == InitThreads /\ [][NextThreads]_vars

(***************************************************************************)
(* Claims about extraction runs, checked under SpecRun and SpecThreads.    *)
(***************************************************************************)
\* the run has ended: its result or its exception is with the caller or the
\* callbacks
Ended(run) == run.pc = "done"

\* no load of this document failed: every load_chunk call made loaded its
\* chunk with the real text
NoLoadFailed(run) ==
    /\ AllLoadsReal
    /\ run.loads = Cardinality({k \in 1..Len(document_data.index.chunks) :
                                   document_data.index.chunks[k].is_loaded})

\* C2: every candidate returned by extraction, in memory or chunk by chunk
\* (overlap included), has 0 <= start_pos < end_pos and its text is
\* document_text[start_pos:end_pos] up to leading and trailing whitespace.
\* Stated for the candidates of the rule-based strategies and the runs in
\* which no load failed.
C2_OffsetsAreGlobal ==
    \A i \in 1..Len(runs) :
        (Ended(runs[i]) /\ runs[i].raised = "none" /\ NoLoadFailed(runs[i])) =>
            \A k \in 1..Len(runs[i].result) :
                LET c == runs[i].result[k]
                IN c.extraction_method # "ai" =>
                      /\ 0 <= c.start_pos
                      /\ c.start_pos < c.end_pos
                      /\ Strip(PySlice(FullText(source), c.start_pos, c.end_pos)) = c.text

\* the sentences of the whole document as _extract_sentences finds them in the
\* full text
DocumentSentences(st) == ExtractSentences(FullText(source), st)

\* the sentence lies across the end of the first chunk, and the part of it in
\* the first chunk is within the last overlap_size characters of that chunk
SpansFirstBoundary(c, chunks, st) ==
    /\ c.start_pos < chunks[1].char_end
    /\ chunks[1].char_end < c.end_pos
    /\ chunks[1].char_end - c.start_pos <= st.overlap_size

\* how many candidates of the list have this text
TimesIn(candidates, text) ==
    Cardinality({k \in 1..Len(candidates) : candidates[k].text = text})

\* a lazy run with the method 'sentences' on a document of three chunks that
\* ran every unit without a failure and returned its whole result
WholeSentenceRun(run) ==
    /\ Ended(run) /\ run.raised = "none" /\ NoLoadFailed(run)
    /\ document_data.lazy_content
    /\ Len(document_data.index.chunks) = 3
    /\ run.request.methods = <<"sentences">>
    /\ run.request.max_candidates = DefaultMaxCandidates
    /\ run.units = 3
    /\ extractor.settings.max_candidates_per_chunk = DefaultSettings.max_candidates_per_chunk

\* C21: in a three-chunk lazy document, a sentence that lies across the end of
\* chunk 0 (its part in chunk 0 within the overlap) is in the final result of
\* a complete 'sentences' run exactly once: neither missed nor present twice.
C21_BoundarySentenceOnce ==
    \A i \in 1..Len(runs) :
        WholeSentenceRun(runs[i]) =>
            LET st == extractor.settings
                sentences == DocumentSentences(st)
            IN \A k \in 1..Len(sentences) :
                  (/\ SpansFirstBoundary(sentences[k], document_data.index.chunks, st)
                   /\ PassesFilter(sentences[k], st)) =>
                      TimesIn(runs[i].result, sentences[k].text) = 1

\* the load_chunk calls and the engine or LLM calls of the i-th run (none
\* before it exists)
UnitsStarted(rs, i) == IF i <= Len(rs) THEN rs[i].loads + rs[i].units ELSE 0

C23_StopNeverLost ==
    [][\A i \in 1..Len(runs) :
          (/\ runs[i].entry = "threaded"
           /\ ~Ended(runs[i])
           /\ extractor.stop_extraction) =>
              /\ extractor'.stop_extraction
              /\ UnitsStarted(runs', i) = UnitsStarted(runs, i)]_vars

\* the last n characters of a text (the whole text if it is shorter)
LastChars(text, n) == SubSeq(text, Len(text) - Min(n, Len(text)) + 1, Len(text))

\* C25: in lazy extraction, the text handed to the extraction engine for a
\* chunk i > 0 is the last overlap_size characters of chunk i-1's content
\* followed by chunk i's content; for chunk 0 it is the chunk's content alone.
\* Stated for the runs in which no load failed, at the moment the method loop
\* is about to call the engine.
C25_OverlapPrepended ==
    \A i \in 1..Len(runs) :
        (/\ runs[i].pc = "method"
         /\ runs[i].method_idx < Len(runs[i].request.methods)
         /\ ~MethodLoopBreaks(runs[i], extractor)
         /\ NoLoadFailed(runs[i])) =>
            LET chunks == document_data.index.chunks
                idx == runs[i].chunk_idx
            IN runs[i].chunk_content =
                  IF idx > 0
                  THEN LastChars(chunks[idx].content, extractor.settings.overlap_size)
                           \o chunks[idx + 1].content
                  ELSE chunks[idx + 1].content

\* the records of the units of a chunk (1-based) among the progress records
RecordsOfChunk(run, c) ==
    {k \in 1..Len(run.progress) :
        ~run.progress[k].is_complete /\ run.progress[k].current_chunk = c}

\* the records of the units of the chunks after it
RecordsAfterChunk(run, c) ==
    {k \in 1..Len(run.progress) :
        ~run.progress[k].is_complete /\ run.progress[k].current_chunk > c}

\* the least of a non-empty set of numbers
Least(S) == CHOOSE k \in S : \A j \in S : k <= j

\* the candidates the chunk's units have added to the pool so far: the pool
\* when the next chunk's first unit started (or the pool now) less the pool
\* when the chunk's first unit started
AddedByChunk(run, c) ==
    (IF RecordsAfterChunk(run, c) # {}
     THEN run.progress[Least(RecordsAfterChunk(run, c))].candidates_found
     ELSE Len(run.all_candidates))
        - run.progress[Least(RecordsOfChunk(run, c))].candidates_found

\* C26: in lazy extraction the number of candidates a single chunk adds to the
\* pool, summed over all requested methods, never exceeds
\* max_candidates_per_chunk.  Stated for the runs in which no load failed.
C26_ChunkAddsAtMostCap ==
    \A i \in 1..Len(runs) :
        (runs[i].pc \in {"chunk", "method", "final"} /\ NoLoadFailed(runs[i])) =>
            \A c \in 1..Len(document_data.index.chunks) :
                RecordsOfChunk(runs[i], c) # {} =>
                    AddedByChunk(runs[i], c) <= extractor.settings.max_candidates_per_chunk

\* C5: a threaded run started with a completion callback and an error
\* callback calls exactly one of them, once: the completion callback with the
\* result when extraction returned (cancelled or not), the error callback
\* when it raised.
C5_ExactlyOneCallbackOnce ==
    \A i \in 1..Len(runs) :
        (/\ Ended(runs[i])
         /\ runs[i].entry = "threaded"
         /\ {"completion", "error"} \subseteq runs[i].request.callbacks) =>
            /\ Len(runs[i].completions) + Len(runs[i].errors) = 1
            /\ runs[i].raised = "none" => runs[i].completions = <<runs[i].result>>
            /\ runs[i].raised # "none" => runs[i].errors = <<runs[i].raised>>

\* C6: a run given a progress callback emits exactly one record with
\* is_complete, as its last record, and that record has an error_message
\* exactly when the run ended in an error (raised, or caught and answered
\* with an empty list).  Stated for the runs of extract_answers_threaded.
C6_OneFinalProgressRecord ==
    \A i \in 1..Len(runs) :
        (/\ Ended(runs[i])
         /\ runs[i].entry = "threaded"
         /\ "progress" \in runs[i].request.callbacks) =>
            LET records == runs[i].progress
            IN /\ Cardinality({k \in 1..Len(records) : records[k].is_complete}) = 1
               /\ records[Len(records)].is_complete
               /\ (records[Len(records)].error_message # "none")
                      <=> (runs[i].raised # "none" \/ runs[i].caught # "none")

\* the worker of the run is executing: extraction_worker has begun and has
\* not left its finally clause
Executing(run) == run.entry = "threaded" /\ run.pc \notin {"start", "done"}

\* C7: at most one extraction worker is executing on an extractor at any
\* time.
C7_OneWorkerAtATime ==
    Cardinality({i \in 1..Len(runs) : Executing(runs[i])}) <= 1

\* the candidate's text holds text of a load error message (no file has an "E")
FromErrorMessage(c) == \E k \in 1..Len(c.text) : c.text[k] = "E"

\* the run was neither asked to stop nor cut short by max_candidates
RanToTheEnd(run) ==
    /\ ~extractor.stop_extraction
    /\ Len(run.all_candidates) < run.request.max_candidates

\* C11: a per-unit failure is contained.  In a lazy run on a parser that has
\* load_chunk (and a usable ai_config, if AI), a chunk whose load fails, or whose service call raises,
\* contributes no candidate: no candidate collected or returned carries text of
\* a load error message; every chunk is still visited unless the run was
\* stopped or reached max_candidates; and the run does not end on the error
\* path.
C11_UnitFailureContained ==
    \A i \in 1..Len(runs) :
        (/\ Ended(runs[i])
         /\ document_data.lazy_content
         /\ extractor.doc_parser = "OptimizedDocumentParser"
         /\ runs[i].request.methods = <<"ai">> => runs[i].request.ai_config = "valid") =>
            /\ runs[i].raised = "none"
            /\ runs[i].errors = <<>>
            /\ \A k \in 1..Len(runs[i].all_candidates) :
                   ~FromErrorMessage(runs[i].all_candidates[k])
            /\ \A k \in 1..Len(runs[i].result) : ~FromErrorMessage(runs[i].result[k])
            /\ RanToTheEnd(runs[i]) =>
                   runs[i].loads = Len(document_data.index.chunks)

\* extraction work of the run failed: an exception left it, extract_answers_ai
\* caught one, or a unit failed
ExtractionFailed(run) ==
    run.raised # "none" \/ run.caught # "none" \/ run.unit_failures > 0

\* the last progress record of the run is a final one; with_error: and it has
\* error_message set
EndsWithFinalRecord(run, with_error) ==
    /\ run.progress # <<>>
    /\ run.progress[Len(run.progress)].is_complete
    /\ (run.progress[Len(run.progress)].error_message # "none") = with_error

\* C12: the terminal state of a run with a progress callback tells 'no
\* candidates found' from 'extraction failed': a run whose work failed (and
\* that did not hand the exception to a direct caller or the error to the error
\* callback) ends with a final record with error_message set, and a final record without error_message together
\* with an empty result occurs only when nothing failed.
C12_FailureIsNotNoCandidates ==
    \A i \in 1..Len(runs) :
        (Ended(runs[i]) /\ "progress" \in runs[i].request.callbacks) =>
            /\ (/\ ExtractionFailed(runs[i])
                /\ runs[i].errors = <<>>
                /\ ~(runs[i].entry = "direct" /\ runs[i].raised # "none")) =>
                   EndsWithFinalRecord(runs[i], TRUE)
            /\ (/\ EndsWithFinalRecord(runs[i], FALSE)
                /\ Len(runs[i].completions) <= 1
                /\ runs[i].result = <<>>) =>
                   ~ExtractionFailed(runs[i])

\* C13: extract_answers_optimized never returns more than max_candidates
\* candidates, whatever the document (in memory or lazy), the methods and
\* max_candidates >= 0; the completion callback gets no more either.
C13_AtMostMaxCandidates ==
    \A i \in 1..Len(runs) :
        /\ Len(runs[i].result) <= runs[i].request.max_candidates
        /\ \A k \in 1..Len(runs[i].completions) :
               Len(runs[i].completions[k]) <= runs[i].request.max_candidates

\* C13 witness: a rule-based run, lazy or on a document in memory, that had
\* more candidates after its last pass than max_candidates and returned
\* exactly max_candidates of them
C13_Witness ==
    \E i \in 1..Len(runs) :
        /\ Ended(runs[i])
        /\ runs[i].raised = "none"
        /\ runs[i].request.methods # <<"ai">>
        /\ runs[i].request.max_candidates = 1
        /\ Len(runs[i].result) = 1
        /\ IF document_data.lazy_content
           THEN Len(FinalPass(runs[i].all_candidates, extractor.settings)) > 1
           ELSE Len(runs[i].all_candidates) > 1

\* the candidates are in non-increasing order of confidence
Ranked(candidates) ==
    \A k \in 1..(Len(candidates) - 1) :
        candidates[k].confidence >= candidates[k + 1].confidence

\* C14: the list returned by extraction over a lazily chunked document is
\* ranked: its candidates are in non-increasing order of confidence.  Stated
\* for the runs in which no unit failed.
C14_LazyResultRanked ==
    \A i \in 1..Len(runs) :
        (/\ runs[i].pc \in {"return", "finally", "done"}
         /\ runs[i].unit_failures = 0
         /\ document_data.lazy_content) =>
            Ranked(runs[i].result)

(***************************************************************************)
(* The extraction specification: a text is given, set_filters and          *)
(* extract_answers are called on one AnswerExtractor in any order.  The    *)
(* last call of extract_answers is kept in engine.calls.                   *)
(***************************************************************************)
\* pieces of text per text
MaxPieces == 2

\* the pieces the texts are made of: a plain sentence, two of them, one with
\* a modal word,
\* one with a modal, a causal and a discourse word and four commas, a question
\* that ends the text, a sentence of 50 characters with all the bonuses
ExtractPieces ==
    {<<"a", "a", "a", ".", " ">>,
     <<"a", "a", "a", ".", " ", "a", "a", "a", ".", " ">>,
     <<"b", " ", "i", "s", " ", "a", ".", " ">>,
     <<"i", "s", " ", "s", "i", "n", "c", "e", " ", "t", "h", "u", "s", ",", ",", ",", ",", ".", " ">>,
     <<"b", "b", "b", "?">>,
     <<"i", "s", " ", "s", "i", "n", "c", "e", " ", "t", "h", "u", "s", ",", ",", ",",
       ",", " ", "a", "a", "a", "a", "a", "a", "a", "a", "a", "a", "a", "a", "a", "a",
       "a", "a", "a", "a", "a", "a", "a", "a", "a", "a", "a", "a", "a", "a", "a", "a",
       "a", "a", ".", " ">>}

\* characters per text
MaxTextLen == 80

ExtractTexts ==
    {t \in {Concat(parts) : parts \in SeqsUpTo(ExtractPieces, MaxPieces)} :
        Len(t) <= MaxTextLen}

\* the method lists extract_answers is called with
ExtractMethods == {<<"sentences">>, <<"paragraphs", "sentences">>}

\* the arguments set_filters is called with (NotPassed: None)
FilterArgs ==
    {[min_length |-> a, max_length |-> b, min_confidence |-> c] :
        a \in {NotPassed, 3}, b \in {NotPassed, 6}, c \in {NotPassed, 60, 90}}

\* set_filters(min_length, max_length, min_confidence)
SetFilters(st, args) ==
    [st EXCEPT
        !.min_answer_length = IF args.min_length # NotPassed THEN args.min_length ELSE @,
        !.max_answer_length = IF args.max_length # NotPassed THEN args.max_length ELSE @,
        !.min_confidence = IF args.min_confidence # NotPassed THEN args.min_confidence
                           ELSE @]

InitExtract ==
    /\ source \in {[ext |-> "txt", text |-> t, pages |-> <<>>,
                     max_chars |-> max_chars_per_chunk] : t \in ExtractTexts}
    /\ document_data = NoDocument
    /\ last = NoCall
    /\ engine = [op |-> "none", given |-> <<>>, passes |-> <<>>, calls |-> <<>>]
    /\ extractor = NewExtractor("AnswerExtractor", "DocumentParser")
    /\ runs = <<>>

\* set_filters(...)
CallSetFilters ==
    /\ \E args \in FilterArgs :
          /\ extractor' = [extractor EXCEPT !.settings = SetFilters(@, args)]
          /\ engine' = [engine EXCEPT !.op = "set_filters", !.passes = <<>>]
    /\ UNCHANGED <<source, document_data, last, runs>>

\* extract_answers(text, methods): passes holds the candidates after the dedup
\* and filter steps and the list returned
CallExtractAnswers ==
    /\ \E methods \in ExtractMethods :
          LET st == extractor.settings
              filtered == FilterCandidates(DeduplicateCandidates(
                              ExtractByMethods(source.text, methods, st)), st)
              ret == ExtractAnswers(source.text, methods, st)
          IN engine' = [op |-> "extract_answers", given |-> source.text,
                        passes |-> <<filtered, ret>>,
                        calls |-> <<[methods |-> methods, settings |-> st, ret |-> ret]>>]
    /\ UNCHANGED <<source, document_data, last, extractor, runs>>

NextExtract ==
    \/ CallSetFilters
    \/ CallExtractAnswers

SpecExtract == InitExtract /\ [][NextExtract]_vars

(***************************************************************************)
(* Claims about extract_answers, checked under SpecExtract.                *)
(***************************************************************************)
\* the candidates of the list that have this confidence, in the list's order
RECURSIVE OfConfidence(_, _)
OfConfidence(candidates, c) ==
    IF candidates = <<>> THEN <<>>
    ELSE IF Head(candidates).confidence = c
    THEN <<Head(candidates)>> \o OfConfidence(Tail(candidates), c)
    ELSE OfConfidence(Tail(candidates), c)

\* C15: extract_answers returns its candidates sorted by confidence,
\* descending, and candidates of equal confidence keep the relative order they
\* had after the dedup and filter steps.
C15_RankedAndStable ==
    engine.op = "extract_answers" =>
        /\ Ranked(engine.passes[2])
        /\ \A c \in 0..100 :
               OfConfidence(engine.passes[2], c) = OfConfidence(engine.passes[1], c)

\* C15 witness: extract_answers moved a candidate in front of two of equal
\* confidence, which kept their order
C15_Witness ==
    /\ engine.op = "extract_answers"
    /\ ~Ranked(engine.passes[1])
    /\ \E c \in 0..100 : Len(OfConfidence(engine.passes[2], c)) >= 2

(***************************************************************************)
(* Claims about the order of the units of a lazy run, checked under        *)
(* SpecRun.                                                                *)
(***************************************************************************)
\* the position of the method in the caller's method list
PositionIn(methods, method) ==
    CHOOSE k \in 1..Len(methods) : methods[k] = method

\* unit u is before unit v in the order of (chunk id, method position)
UnitBefore(u, v, methods) ==
    \/ u.chunk_id < v.chunk_id
    \/ /\ u.chunk_id = v.chunk_id
       /\ PositionIn(methods, u.method) < PositionIn(methods, v.method)

\* the progress records that describe a unit: those before the final one
RECURSIVE UnitRecords(_)
UnitRecords(progress) ==
    IF progress = <<>> THEN <<>>
    ELSE IF Head(progress).is_complete THEN UnitRecords(Tail(progress))
    ELSE <<Head(progress)>> \o UnitRecords(Tail(progress))

\* C16: in lazy extraction the units are started in ascending order of (chunk
\* id, position of the method in the caller's list), and the progress records
\* are delivered in the order of the units they describe, one per unit, the
\* final record last.
C16_UnitsAndRecordsInOrder ==
    \A i \in 1..Len(runs) :
        document_data.lazy_content =>
            LET run == runs[i]
                records == UnitRecords(run.progress)
            IN /\ \A k \in 1..(Len(run.started) - 1) :
                      UnitBefore(run.started[k], run.started[k + 1], run.request.methods)
               /\ "progress" \in run.request.callbacks =>
                      /\ Len(records) = Len(run.started)
                      /\ \A k \in 1..Len(records) :
                             /\ records[k].current_chunk = run.started[k].chunk_id + 1
                             /\ records[k].current_method = run.started[k].method
                      /\ \A k \in 1..(Len(run.progress) - 1) : ~run.progress[k].is_complete

\* C16 witness: a lazy run that ended after units of two methods on each of two
\* chunks
C16_Witness ==
    \E i \in 1..Len(runs) :
        /\ Ended(runs[i])
        /\ document_data.lazy_content
        /\ \E j, k \in 1..Len(runs[i].started) :
               /\ runs[i].started[j].chunk_id # runs[i].started[k].chunk_id
               /\ runs[i].started[j].method # runs[i].started[k].method
        /\ Len(runs[i].started) >= 4
        /\ Len(UnitRecords(runs[i].progress)) = Len(runs[i].started)

(***************************************************************************)
(* The filter specification: set_filters and _filter_candidates are called *)
(* on one AnswerExtractor, the filter on a list of candidates and then on  *)
(* its own result.                                                         *)
(***************************************************************************)
\* the candidates a list is drawn from: a plain one, one of low confidence,
\* one that is mostly punctuation, one with a run of capitals, a short one, a
\* long one, one with punctuation that passes
FilterUniverse ==
    {AnswerCandidate(<<"a", "a", "a">>, 0, 3, 50, "sentences", <<>>),
     AnswerCandidate(<<"a", "a", "a">>, 0, 3, 20, "sentences", <<>>),
     AnswerCandidate(<<"a", ",", ",", ".">>, 4, 8, 50, "sentences", <<>>),
     AnswerCandidate(<<"A", "A", "A", "A", "A">>, 9, 14, 60, "paragraphs", <<>>),
     AnswerCandidate(<<"a", "b">>, 15, 17, 90, "sentences", <<>>),
     AnswerCandidate(<<"a", "b", "a", "b", "a", "b", "a">>, 18, 25, 60, "paragraphs", <<>>),
     AnswerCandidate(<<"a", ",", " ", "b", "?">>, 26, 31, 90, "sentences", <<>>)}

InitFilter ==
    /\ source = [ext |-> "txt", text |-> <<>>, pages |-> <<>>,
                 max_chars |-> max_chars_per_chunk]
    /\ document_data = NoDocument
    /\ last = NoCall
    /\ engine \in {[NoEngineCall EXCEPT !.given = L] :
                      L \in SeqsUpTo(FilterUniverse, MaxCandidates)}
    /\ extractor = NewExtractor("AnswerExtractor", "DocumentParser")
    /\ runs = <<>>

\* _filter_candidates called on the list given, then on its own result
CallFilterCandidates ==
    /\ Len(engine.passes) < MaxPasses
    /\ engine' = [engine EXCEPT
                     !.op = "filter",
                     !.passes = Append(@, FilterCandidates(
                                    IF engine.passes = <<>> THEN engine.given
                                    ELSE engine.passes[Len(engine.passes)],
                                    extractor.settings))]
    /\ UNCHANGED <<source, document_data, last, extractor, runs>>

NextFilter ==
    \/ CallSetFilters
    \/ CallFilterCandidates

SpecFilter == InitFilter /\ [][NextFilter]_vars

(***************************************************************************)
(* Claims about _filter_candidates, checked under SpecFilter.              *)
(***************************************************************************)
\* a is b with some of its elements left out
RECURSIVE IsSubList(_, _)
IsSubList(a, b) ==
    IF a = <<>> THEN TRUE
    ELSE IF b = <<>> THEN FALSE
    ELSE \/ Head(a) = Head(b) /\ IsSubList(Tail(a), Tail(b))
         \/ IsSubList(a, Tail(b))

\* the candidate is kept when it is filtered alone
KeptAlone(c, st) == FilterCandidates(<<c>>, st) = <<c>>

\* C17: filtering is idempotent and a per-candidate predicate: filtering the
\* filter's output again changes nothing, the output is a sub-list of the
\* input in the same order, and a candidate is kept exactly when it is kept
\* alone, whatever the other candidates are.
C17_FilterIdempotentPerCandidate ==
    engine.op = "filter" =>
        /\ IsSubList(engine.passes[1], engine.given)
        /\ \A k \in 1..Len(engine.passes[1]) :
               KeptAlone(engine.passes[1][k], extractor.settings)
        /\ Len(engine.passes[1])
               = Cardinality({k \in 1..Len(engine.given) :
                                 KeptAlone(engine.given[k], extractor.settings)})
        /\ Len(engine.passes) >= 2 => engine.passes[2] = engine.passes[1]

\* C17 witness: the filter, called twice, kept one candidate with punctuation
\* between two it dropped
C17_Witness ==
    /\ engine.op = "filter"
    /\ Len(engine.passes) = 2
    /\ Len(engine.given) = 3
    /\ Len(engine.passes[1]) = 1
    /\ engine.passes[1][1] = engine.given[2]
    /\ \E k \in 1..Len(engine.given[2].text) : engine.given[2].text[k] \in Punctuation

(***************************************************************************)
(* Claims about the thresholds of extract_answers, checked under           *)
(* SpecExtract.                                                            *)
(***************************************************************************)
\* the two calls differ in min_confidence at most
SameButMinConfidence(a, b) ==
    /\ a.methods = b.methods
    /\ [a.settings EXCEPT !.min_confidence = 0] = [b.settings EXCEPT !.min_confidence = 0]

\* every candidate of a is a candidate of b
SubsetOfCandidates(a, b) ==
    \A k \in 1..Len(a) : \E j \in 1..Len(b) : a[k] = b[j]

\* the call with the higher threshold returned a subset of the other's
\* candidates, and no more of them
NoMoreThan(high, low) ==
    /\ SubsetOfCandidates(high.ret, low.ret)
    /\ Len(high.ret) <= Len(low.ret)

\* C18: raising min_confidence never increases the result: of two calls of
\* extract_answers on the same text with the same methods, one after the
\* other with the filters set in between, the one with the higher
\* min_confidence (0.9 against 0.3) returns a subset of the other's
\* candidates, and no more of them.
C18_HigherThresholdReturnsSubset ==
    [][(/\ engine.calls # <<>>
        /\ engine'.calls # <<>>
        /\ SameButMinConfidence(engine.calls[1], engine'.calls[1])) =>
           /\ engine.calls[1].settings.min_confidence
                  <= engine'.calls[1].settings.min_confidence
                  => NoMoreThan(engine'.calls[1], engine.calls[1])
           /\ engine'.calls[1].settings.min_confidence
                  <= engine.calls[1].settings.min_confidence
                  => NoMoreThan(engine.calls[1], engine'.calls[1])]_vars

\* C18 witness: extract_answers, called with min_confidence 0.9, returned some
\* but not all of the candidates it returns for this text and these methods
\* with 0.3
C18_Witness ==
    /\ engine.op = "extract_answers"
    /\ engine.calls[1].settings.min_confidence = 90
    /\ engine.calls[1].ret # <<>>
    /\ Len(engine.calls[1].ret)
           < Len(ExtractAnswers(source.text, engine.calls[1].methods,
                                [engine.calls[1].settings EXCEPT !.min_confidence = 30]))

(***************************************************************************)
(* The score specification: the six score functions of one AnswerExtractor *)
(* are called on a text, with the filters set in between.                  *)
(***************************************************************************)
\* the lengths of the texts: empty, around each length the score functions
\* and the default filters test, and longer than all of them
ScoreLengths ==
    {0, 19, 20, 30, 40, 49, 50, 100, 150, 151, 200, 201, 400, 401, 501}

\* how the texts begin: with nothing special; with a modal, a causal and a
\* discourse word and four commas; with a percentage; with a quantity; with
\* three sentences; with a line break
ScoreBeginnings ==
    {<<>>,
     <<"i", "s", " ", "s", "i", "n", "c", "e", " ", "t", "h", "u", "s", ",", ",", ",", ",", " ">>,
     <<"9", "%", " ">>,
     <<"9", " ", "m", "i", "l", "l", "i", "o", "n", " ">>,
     <<"a", ".", " ", "a", "!", " ">>,
     <<"a", "\n">>}

\* how the texts end
ScoreEndings == {<<>>, <<"?">>, <<":">>, <<".", ".", ".">>}

\* the text of n characters with this beginning and this ending
Padded(beginning, n, ending) ==
    beginning \o [k \in 1..(n - Len(beginning) - Len(ending)) |-> "a"] \o ending

ScoreTexts ==
    {Padded(x.beginning, x.length, x.ending) :
        x \in {y \in [beginning : ScoreBeginnings, ending : ScoreEndings,
                       length : ScoreLengths] :
                  y.length >= Len(y.beginning) + Len(y.ending)}}

InitScore ==
    /\ source \in {[ext |-> "txt", text |-> t, pages |-> <<>>,
                     max_chars |-> max_chars_per_chunk] : t \in ScoreTexts}
    /\ document_data = NoDocument
    /\ last = NoCall
    /\ engine = NoEngineCall
    /\ extractor = NewExtractor("AnswerExtractor", "DocumentParser")
    /\ runs = <<>>

\* the score function was called on the text and returned this score
Scored(function, score) ==
    /\ engine' = [op |-> function, given |-> source.text, passes |-> <<score>>]
    /\ UNCHANGED <<source, document_data, last, extractor, runs>>

CallScoreSentence == Scored("_score_sentence", ScoreSentence(source.text, extractor.settings))

CallScoreParagraph == Scored("_score_paragraph", ScoreParagraph(source.text, extractor.settings))

CallScoreListItem == Scored("_score_list_item", ScoreListItem(source.text))

CallScoreDefinition == Scored("_score_definition", ScoreDefinition(source.text))

CallScoreFact == Scored("_score_fact", ScoreFact(source.text))

CallScoreProcedure == Scored("_score_procedure", ScoreProcedure(source.text))

NextScore ==
    \/ CallSetFilters
    \/ CallScoreSentence
    \/ CallScoreParagraph
    \/ CallScoreListItem
    \/ CallScoreDefinition
    \/ CallScoreFact
    \/ CallScoreProcedure

SpecScore == InitScore /\ [][NextScore]_vars

(***************************************************************************)
(* Claims about the score functions, checked under SpecScore.              *)
(***************************************************************************)
ScoreFunctions ==
    {"_score_sentence", "_score_paragraph", "_score_list_item", "_score_definition",
     "_score_fact", "_score_procedure"}

\* C19: every score of the six score functions lies in [0.0, 1.0] (0 to 100
\* as the model counts), whatever bonuses and penalties apply and whatever
\* the length of the text, the empty and the very long text included.
C19_ScoresInUnitInterval ==
    engine.op \in ScoreFunctions =>
        /\ 0 <= engine.passes[1]
        /\ engine.passes[1] <= 100

\* C19 witness: a sentence with every bonus, whose sum is above 1.0, was scored
\* 1.0
C19_Witness ==
    /\ engine.op = "_score_sentence"
    /\ 50 <= Len(engine.given) /\ Len(engine.given) <= 200
    /\ ContainsWord(engine.given, ModalWords)
    /\ ContainsWord(engine.given, CausalWords)
    /\ ContainsWord(engine.given, DiscourseWords)
    /\ CountChar(engine.given, ",") > 3
    /\ ~EndsWith(engine.given, <<"?">>)
    /\ engine.passes[1] = 100

\* C27: in lazy extraction, each (chunk, method) unit of work that has
\* completed has exactly one non-final progress record, with current_chunk the
\* 1-based index of the chunk (1 <= current_chunk <= total_chunks),
\* current_method the unit's method and candidates_found the number of pooled
\* candidates including those of that unit; candidates_found never decreases
\* across the non-final records of a run.  Stated for the rule-based loop and
\* the runs in which no load failed.
C27_RecordAfterEachUnit ==
    \A i \in 1..Len(runs) :
        (/\ document_data.lazy_content
         /\ runs[i].request.methods # <<"ai">>
         /\ "progress" \in runs[i].request.callbacks
         /\ NoLoadFailed(runs[i])) =>
            LET run == runs[i]
                records == UnitRecords(run.progress)
            IN /\ Len(records) = run.units
               /\ Len(records) = Len(run.started)
               /\ \A k \in 1..Len(records) :
                      /\ records[k].current_chunk = run.started[k].chunk_id + 1
                      /\ 1 <= records[k].current_chunk
                      /\ records[k].current_chunk <= records[k].total_chunks
                      /\ records[k].current_method = run.started[k].method
                      /\ records[k].candidates_found =
                             IF k < Len(records) THEN records[k + 1].candidates_found
                             ELSE Len(run.all_candidates)
               /\ \A k \in 1..(Len(records) - 1) :
                      records[k].candidates_found <= records[k + 1].candidates_found

(***************************************************************************)
(* Claims about validation, checked under SpecRun.                         *)
(***************************************************************************)
\* thresholds a filter can have: lengths in order, min_confidence in [0, 1]
ValidSettings(st) ==
    /\ 0 <= st.min_answer_length
    /\ st.min_answer_length <= st.max_answer_length
    /\ 0 <= st.min_confidence
    /\ st.min_confidence <= 100

\* C20: validation errors are rejected before any extraction work: a call of
\* update_extraction_settings / set_filters with invalid thresholds leaves the
\* stored settings as they were (so the stored thresholds are always valid),
\* and an extraction with an empty method list loads no chunk, produces
\* nothing and ends with an error.
C20_InvalidInputRejected ==
    /\ ValidSettings(extractor.settings)
    /\ \A i \in 1..Len(runs) :
           runs[i].request.methods = <<>> =>
               /\ runs[i].loads = 0
               /\ runs[i].units = 0
               /\ runs[i].pc \notin {"return", "final"}
               /\ Ended(runs[i]) => runs[i].raised # "none"

(***************************************************************************)
(* The conversion specification: _convert_qa_pairs_to_candidates is called *)
(* with question/answer pairs as the generation service may return them.   *)
(***************************************************************************)
\* pairs in one call
MaxPairs == 2

\* the source texts: one with a run of two blanks before a repeated word
ConvertTexts ==
    {<<"a", "b", " ", " ", "c", "d", ".", " ", "c", "d">>,
     <<"c", "d", " ", "a", "b">>}

\* the answers: a word of the text, the word with a blank in front, a word
\* not in the text, nothing, a blank, words found only with whitespace
\* collapsed, words found only with punctuation removed
ConvertAnswers ==
    {<<"c", "d">>, <<" ", "c", "d">>, <<"z", "z">>, <<>>, <<" ">>,
     <<"a", "b", " ", "c", "d">>, <<"a", "b", ",", " ", "c", "d">>}

ConvertQuestions == {<<"q">>, <<>>, <<" ", "q">>}

QaPairs == {[question |-> q, answer |-> a] : q \in ConvertQuestions, a \in ConvertAnswers}

\* the char_offset passed: none, or the char_start of a second chunk
ConvertOffsets == {0, RunChunkChars}

\* the pairs the service returned are in engine.given
InitConvert ==
    /\ source \in {[ext |-> "txt", text |-> t, pages |-> <<>>, max_chars |-> RunChunkChars] :
                      t \in ConvertTexts}
    /\ document_data = NoDocument
    /\ last = NoCall
    /\ engine \in {[op |-> "none", given |-> qa_pairs, passes |-> <<>>, calls |-> <<>>] :
                      qa_pairs \in SeqsUpTo(QaPairs, MaxPairs)}
    /\ extractor = NewExtractor("AnswerExtractor", "DocumentParser")
    /\ runs = <<>>

\* _convert_qa_pairs_to_candidates(qa_pairs, source_text, char_offset)
CallConvertQaPairs ==
    /\ engine.op = "none"
    /\ \E char_offset \in ConvertOffsets :
          engine' = [engine EXCEPT
                        !.op = "convert",
                        !.calls = <<[qa_pairs |-> engine.given, source_text |-> source.text,
                                     char_offset |-> char_offset,
                                     ret |-> ConvertQaPairsToCandidates(engine.given, source.text,
                                                                        char_offset)]>>]
    /\ UNCHANGED <<source, document_data, last, extractor, runs>>

NextConvert == CallConvertQaPairs

SpecConvert == InitConvert /\ [][NextConvert]_vars

\* the piece stands in the text at offset i
StandsAt(text, piece, i) ==
    /\ i + Len(piece) <= Len(text)
    /\ \A j \in 1..Len(piece) : text[i + j] = piece[j]

\* the piece is a substring of the text
IsSubstring(text, piece) == \E i \in 0..Len(text) : StandsAt(text, piece, i)

\* the offset of the first occurrence of a substring
FirstIndex(text, piece) ==
    CHOOSE i \in 0..Len(text) :
        StandsAt(text, piece, i) /\ \A j \in 0..(i - 1) : ~StandsAt(text, piece, j)

\* the answer is found neither as it is nor with whitespace collapsed and
\* punctuation removed
Unlocatable(answer, text) ==
    /\ ~IsSubstring(text, answer)
    /\ ~IsSubstring(RemovePunctuation(CollapseWhitespace(text)),
                    RemovePunctuation(CollapseWhitespace(answer)))

\* the calls made
ConvertCalls == IF engine.op = "convert" THEN engine.calls ELSE <<>>

\* C22 as stated: every pair with a non-empty question and answer whose
\* answer is an exact substring of the source text gives one candidate with
\* confidence 0.9, method 'ai', the question as context, the answer as text,
\* start_pos char_offset + the index of the answer's first occurrence and
\* end_pos start_pos + len(answer); a pair with an empty question or answer,
\* or an answer that cannot be located, gives none.
C22_EveryPairConverted ==
    \A n \in 1..Len(ConvertCalls) :
        LET call == ConvertCalls[n]
            text == call.source_text
            Exact(p) == p.question # <<>> /\ p.answer # <<>> /\ IsSubstring(text, p.answer)
            None(p) == p.question = <<>> \/ p.answer = <<>> \/ Unlocatable(p.answer, text)
            exact == SelectSeq(call.qa_pairs, Exact)
        IN (\A k \in 1..Len(call.qa_pairs) : Exact(call.qa_pairs[k]) \/ None(call.qa_pairs[k])) =>
              /\ Len(call.ret) = Len(exact)
              /\ \A k \in 1..Len(exact) :
                     call.ret[k] =
                         AnswerCandidate(exact[k].answer,
                                         call.char_offset + FirstIndex(text, exact[k].answer),
                                         call.char_offset + FirstIndex(text, exact[k].answer)
                                             + Len(exact[k].answer),
                                         90, "ai", exact[k].question)

\* C22, amended: the same with question and answer taken stripped of leading
\* and trailing whitespace: a pair whose stripped question and answer are
\* non-empty and whose stripped answer is an exact substring of the source
\* text gives one candidate holding the stripped answer, its first occurrence
\* and the stripped question; a pair whose stripped question or answer is
\* empty, or whose answer no search locates, gives none; the candidates stand
\* in the order of their pairs.
C22_StrippedPairConverted ==
    \A n \in 1..Len(ConvertCalls) :
        LET call == ConvertCalls[n]
            text == call.source_text
            Exact(p) == /\ Strip(p.question) # <<>> /\ Strip(p.answer) # <<>>
                        /\ IsSubstring(text, Strip(p.answer))
            None(p) == \/ Strip(p.question) = <<>> \/ Strip(p.answer) = <<>>
                       \/ Unlocatable(Strip(p.answer), text)
            exact == SelectSeq(call.qa_pairs, Exact)
        IN (\A k \in 1..Len(call.qa_pairs) : Exact(call.qa_pairs[k]) \/ None(call.qa_pairs[k])) =>
              /\ Len(call.ret) = Len(exact)
              /\ \A k \in 1..Len(exact) :
                     call.ret[k] =
                         AnswerCandidate(Strip(exact[k].answer),
                                         call.char_offset
                                             + FirstIndex(text, Strip(exact[k].answer)),
                                         call.char_offset
                                             + FirstIndex(text, Strip(exact[k].answer))
                                             + Len(Strip(exact[k].answer)),
                                         90, "ai", Strip(exact[k].question))

\* a call with a second chunk's offset converted two pairs, the first with a
\* blank before an answer that stands after a run of blanks, the second
\* with an answer not in the text, into one candidate
C22_Witness ==
    /\ engine.op = "convert"
    /\ engine.calls[1].char_offset = RunChunkChars
    /\ Len(engine.calls[1].qa_pairs) = 2
    /\ engine.calls[1].qa_pairs[1].answer = <<" ", "c", "d">>
    /\ engine.calls[1].qa_pairs[1].question = <<" ", "q">>
    /\ engine.calls[1].qa_pairs[2].answer = <<"z", "z">>
    /\ engine.calls[1].qa_pairs[2].question = <<"q">>
    /\ engine.calls[1].source_text[3] = " "
    /\ Len(engine.calls[1].ret) = 1
    /\ engine.calls[1].ret[1].start_pos = RunChunkChars + 4

(***************************************************************************)
(* The generator specification: a document is opened, the extractor may be *)
(* configured, and extract_answers_generator is called and consumed batch  *)
(* by batch, while the caller may ask it to stop at any moment.            *)
(***************************************************************************)
\* the chunk_size values passed
ChunkSizes == {1, 2, 3}

GeneratorRequests ==
    {[methods |-> m, chunk_size |-> n] :
        m \in {<<"sentences">>, <<"sentences", "paragraphs">>}, n \in ChunkSizes}

\* a generator just created: where its code stands (pc), the loop variables
\* (chunk_idx, current_batch; candidates and i of the in-memory branch), the
\* batches yielded so far, the candidates the engine returned for the chunks
\* processed, in order (extracted), the load_chunk calls made and the
\* exception that left it
NewGenerator(request) ==
    [entry |-> "generator", request |-> request, pc |-> "begin",
     chunk_idx |-> 0, current_batch |-> <<>>, candidates |-> <<>>, i |-> 0,
     batches |-> <<>>, extracted |-> <<>>, loads |-> 0, raised |-> "none"]

InitGenerator ==
    /\ source \in RunSources
    /\ document_data = NoDocument
    /\ last = NoCall
    /\ engine = NoEngineCall
    /\ extractor \in {NewExtractor(c, p) :
                         c \in {"AnswerExtractor", "OptimizedAnswerExtractor"},
                         p \in {"DocumentParser", "OptimizedDocumentParser"}}
    /\ runs = <<>>

\* extract_answers_generator(document_data, methods, chunk_size): the
\* generator object is created, none of its code has run
CallExtractAnswersGenerator ==
    /\ runs = <<>>
    /\ document_data.parsed
    /\ \E request \in GeneratorRequests : runs' = <<NewGenerator(request)>>
    /\ UNCHANGED <<source, document_data, last, engine, extractor>>

\* the first next(): the branch on lazy_content; an in-memory document is
\* extracted at once
GeneratorBegin ==
    \E g \in 1..Len(runs) :
       /\ runs[g].pc = "begin"
       /\ LET candidates == ExtractAnswers(document_data.content, runs[g].request.methods,
                                           extractor.settings)
          IN runs' = [runs EXCEPT ![g] =
                 IF document_data.lazy_content THEN [runs[g] EXCEPT !.pc = "chunk"]
                 ELSE [runs[g] EXCEPT !.pc = "slices", !.candidates = candidates,
                                      !.extracted = candidates]]
       /\ UNCHANGED <<source, document_data, last, engine, extractor>>

\* for i in range(0, len(candidates), chunk_size): yield candidates[i:i + chunk_size]
GeneratorSlice ==
    \E g \in 1..Len(runs) :
       /\ runs[g].pc = "slices"
       /\ runs' = [runs EXCEPT ![g] =
              IF runs[g].i < Len(runs[g].candidates)
              THEN [runs[g] EXCEPT
                       !.batches = Append(@, PySlice(runs[g].candidates, runs[g].i,
                                                     runs[g].i + runs[g].request.chunk_size)),
                       !.i = @ + runs[g].request.chunk_size]
              ELSE [runs[g] EXCEPT !.pc = "done"]]
       /\ UNCHANGED <<source, document_data, last, engine, extractor>>

\* one pass of the chunk loop down to the while loop: the stop test,
\* load_chunk, the engine on the chunk, current_batch.extend
GeneratorChunkStep ==
    \E g \in 1..Len(runs) :
       /\ runs[g].pc = "chunk"
       /\ LET gen == runs[g]
              chunks == document_data.index.chunks
          IN IF gen.chunk_idx >= Len(chunks) \/ extractor.stop_extraction
             THEN /\ runs' = [runs EXCEPT ![g].pc = "rest"]
                  /\ UNCHANGED document_data
             ELSE IF extractor.doc_parser = "DocumentParser"
             THEN /\ runs' = [runs EXCEPT ![g] = [gen EXCEPT !.pc = "done",
                                                            !.raised = "AttributeError"]]
                  /\ UNCHANGED document_data
             ELSE \E outcome \in ReadsOf(chunks[gen.chunk_idx + 1]) :
                     LET chunk == chunks[gen.chunk_idx + 1]
                         r == LoadChunk(source, document_data, chunk.chunk_id, outcome)
                         chunk_candidates == ExtractFromChunk(r.ret, gen.request.methods,
                                                              chunk.char_start,
                                                              extractor.settings)
                     IN /\ document_data' = r.dd
                        /\ runs' = [runs EXCEPT ![g] =
                               [gen EXCEPT !.current_batch = @ \o chunk_candidates,
                                           !.extracted = @ \o chunk_candidates,
                                           !.loads = @ + 1,
                                           !.pc = "while"]]
       /\ UNCHANGED <<source, last, engine, extractor>>

\* while len(current_batch) >= chunk_size: yield current_batch[:chunk_size]
\* and keep the rest; else on to the next chunk
GeneratorWhile ==
    \E g \in 1..Len(runs) :
       /\ runs[g].pc = "while"
       /\ LET gen == runs[g]
              chunk_size == gen.request.chunk_size
          IN runs' = [runs EXCEPT ![g] =
                 IF Len(gen.current_batch) >= chunk_size
                 THEN [gen EXCEPT !.batches = Append(@, PySlice(gen.current_batch, 0, chunk_size)),
                                  !.current_batch = PySlice(@, chunk_size, Len(@))]
                 ELSE [gen EXCEPT !.chunk_idx = @ + 1, !.pc = "chunk"]]
       /\ UNCHANGED <<source, document_data, last, engine, extractor>>

\* the candidates left after the loop are not yielded
YieldRemainingDropped(gen) == gen

\* if current_batch: yield current_batch
YieldRemaining(gen) ==
    IF gen.current_batch # <<>>
    THEN [gen EXCEPT !.batches = Append(@, gen.current_batch)]
    ELSE gen

\* after the chunk loop: the last batch, and the generator is exhausted
GeneratorRest ==
    \E g \in 1..Len(runs) :
       /\ runs[g].pc = "rest"
       /\ runs' = [runs EXCEPT ![g] = [YieldRemaining(runs[g]) EXCEPT !.pc = "done"]]
       /\ UNCHANGED <<source, document_data, last, engine, extractor>>

NextGenerator ==
    \/ ParseTextLazyOk
    \/ ParseLazyFallback
    \/ UpdateExtractionSettings
    \/ CallExtractAnswersGenerator
    \/ GeneratorBegin
    \/ GeneratorSlice
    \/ GeneratorChunkStep
    \/ GeneratorWhile
    \/ GeneratorRest
    \/ StopCurrentExtraction

SpecGenerator == InitGenerator /\ [][NextGenerator]_vars

(***************************************************************************)
(* Claims about extract_answers_generator, checked under SpecGenerator.    *)
(***************************************************************************)
\* the batches one after the other
RECURSIVE Flattened(_)
Flattened(batches) ==
    IF batches = <<>> THEN <<>> ELSE Head(batches) \o Flattened(Tail(batches))

\* the generator is exhausted without an exception
Exhausted(gen) == gen.pc = "done" /\ gen.raised = "none"

\* C30: extract_answers_generator yields batches of the caller-specified
\* size: every yielded batch is non-empty, every batch but possibly the last
\* has exactly chunk_size candidates and the last at most chunk_size; the
\* batches yielded so far, one after the other, are the first of the
\* candidates extracted from the chunks processed, in order, and all of them
\* once the generator is exhausted (none lost, none yielded twice); and a
\* step taken while the stop flag is set loads no chunk.
C30_BatchesOfChunkSize ==
    /\ [](\A g \in 1..Len(runs) :
             LET gen == runs[g]
                 yielded == Flattened(gen.batches)
             IN /\ \A k \in 1..Len(gen.batches) :
                       /\ gen.batches[k] # <<>>
                       /\ Len(gen.batches[k]) <= gen.request.chunk_size
                       /\ k < Len(gen.batches) =>
                              Len(gen.batches[k]) = gen.request.chunk_size
                /\ Len(yielded) <= Len(gen.extracted)
                /\ yielded = SubSeq(gen.extracted, 1, Len(yielded))
                /\ Exhausted(gen) => yielded = gen.extracted)
    /\ [][(extractor.stop_extraction /\ document_data.parsed) =>
              /\ document_data' = document_data
              /\ \A g \in 1..Len(runs) : runs'[g].loads = runs[g].loads]_vars

\* C30 witness: a generator on a lazy document was stopped before its last
\* chunk and is exhausted, after two batches or more, the last one smaller
\* than chunk_size
C30_Witness ==
    \E g \in 1..Len(runs) :
        /\ Exhausted(runs[g])
        /\ document_data.lazy_content
        /\ extractor.stop_extraction
        /\ runs[g].loads < Len(document_data.index.chunks)
        /\ Len(runs[g].batches) >= 2
        /\ Len(runs[g].batches[Len(runs[g].batches)]) < runs[g].request.chunk_size

====
